---- MODULE Spec2Model ----
(***************************************************************************)
(* The request pipeline of snippetbox (cmd/web): the handler routes()      *)
(* composes out of the standard, dynamic and protected middleware chains,  *)
(* the session lifecycle the handlers drive through the session manager,   *)
(* the CSRF guard and the route handlers.                                  *)
(*                                                                         *)
(* A request on a dynamic route is served in two steps, split where the    *)
(* session store is read: Load is LoadAndSave's Store.Find, Serve is the   *)
(* rest of the composed handler, up to the commit and the response.        *)
(* Everything between the two store accesses of a request is local to the  *)
(* request (the session data lives in the request context), and the token  *)
(* RenewToken issues is unknown to every other request until the response  *)
(* is sent, so RenewToken's delete and the commit are one step.            *)
(***************************************************************************)
EXTENDS Integers, Sequences, FiniteSets, TLC

\* ------------------------------------------------------------- bounds
\* Session tokens ever issued (generateToken is modelled as a counter: a
\* fresh token is one no request has seen).
MaxToken == 2
\* User ids users.Authenticate can return (AUTO_INCREMENT ids, from 1).
MaxUser == 2

Token == 1..MaxToken
NoToken == 0
Users == 1..MaxUser
\* The slots of requests in flight (between their Load and their Serve).
Req == {1, 2}

\* ------------------------------------------------------- session data
authenticatedUserID == "authenticatedUserID"
flashKey == "flash"
redirectAfterLogin == "redirectAfterLogin"

NoValues == [k \in {} |-> 0]

\* scs.SessionManager.Load with no usable token: newSessionData.
\* grant is a history field: for a session holding authenticatedUserID, the
\* value of the token generator when the login that put it began (every
\* token below it was issued before that login); 0 otherwise.
\* expired: the session's deadline (its creation plus the Lifetime of 12
\* hours) has passed.
newSessionData ==
    [token |-> NoToken, values |-> NoValues, status |-> "Unmodified", grant |-> 0,
     expired |-> FALSE]

None == [none |-> TRUE]

\* ------------------------------------------------- the response writer
NoHeader == [k \in {} |-> <<>>]

\* code 0: WriteHeader not yet called. wire: the header map as it was when
\* the status line was written (later changes of the map are not sent).
newResponse == [code |-> 0, header |-> NoHeader, wire |-> NoHeader, body |-> <<>>,
                setCookie |-> NoToken]

StatusOK == 200
StatusSeeOther == 303
StatusBadRequest == 400
StatusNotFound == 404
StatusMethodNotAllowed == 405
StatusUnprocessableEntity == 422
StatusInternalServerError == 500

StatusText(code) ==
    CASE code = StatusBadRequest -> "Bad Request"
      [] code = StatusNotFound -> "Not Found"
      [] code = StatusMethodNotAllowed -> "Method Not Allowed"
      [] code = StatusInternalServerError -> "Internal Server Error"
      [] OTHER -> ""

\* The state threaded through one request: the connection's ResponseWriter
\* (w), LoadAndSave's buffered writer (bw, used while buffered), the session
\* data in the request context (sd), the session store and token generator,
\* and what the request did (trace of wrappers and handlers entered and
\* left, session operations, persistence calls, the error log).
NoPanic == "nopanic"

HeaderSet(st, k, v) ==
    [st EXCEPT !.w.header = [x \in DOMAIN @ \cup {k} |-> IF x = k THEN <<v>> ELSE @[x]]]

HeaderAdd(st, k, v) ==
    [st EXCEPT !.w.header =
        [x \in DOMAIN @ \cup {k} |->
            IF x = k THEN (IF k \in DOMAIN @ THEN Append(@[k], v) ELSE <<v>>) ELSE @[x]]]

\* http.ResponseWriter.WriteHeader: the first call sends the status line and
\* the headers; a later call is ignored. Through the buffered writer it only
\* records the code.
WriteHeader(st, code) ==
    IF st.buffered THEN [st EXCEPT !.bw.code = code]
    ELSE IF st.w.code # 0 THEN st
    ELSE [st EXCEPT !.w.code = code, !.w.wire = st.w.header]

\* http.ResponseWriter.Write: an implicit WriteHeader(200) when none was
\* called, then the bytes.
Write(st, chunk) ==
    IF st.buffered THEN [st EXCEPT !.bw.body = Append(@, chunk)]
    ELSE LET s1 == WriteHeader(st, StatusOK)
         IN [s1 EXCEPT !.w.body = Append(@, chunk)]

\* http.Error
httpError(st, msg, code) ==
    LET s1 == HeaderSet(st, "Content-Type", "text/plain; charset=utf-8")
        s2 == HeaderSet(s1, "X-Content-Type-Options", "nosniff")
    IN Write(WriteHeader(s2, code), [text |-> msg])

\* The calls that answer a request, in the order they are entered.
Answer(st, name) == [st EXCEPT !.answers = Append(@, name)]

\* http.Redirect: the Location header, the status and, for a GET, a short
\* HTML body naming the target.
httpRedirect(st, rq, url, code) ==
    LET s1 == HeaderSet(Answer(st, "Redirect"), "Location", url)
    IN IF rq.method = "GET"
       THEN Write(WriteHeader(HeaderSet(s1, "Content-Type", "text/html; charset=utf-8"), code),
                  [text |-> "<a href>"])
       ELSE WriteHeader(s1, code)

Enter(st, name) == [st EXCEPT !.trace = Append(@, "+" \o name)]
Leave(st, name) == [st EXCEPT !.trace = Append(@, "-" \o name)]

\* ------------------------------------------- session manager (scs v2)
\* The operations act on the session data bound to the request's context.
\* flash and redirectAfterLogin only ever hold strings, authenticatedUserID
\* only ints, so the type assertions of PopString and GetInt are decided
\* by the key.
Op(st, name) == [st EXCEPT !.ops = Append(@, name)]

SessionExists(st, key) == key \in DOMAIN st.sd.values

SessionPut(st, key, val) ==
    Op([st EXCEPT !.sd.values = [k \in DOMAIN @ \cup {key} |-> IF k = key THEN val ELSE @[k]],
                  !.sd.status = "Modified",
                  !.sd.grant = IF key = authenticatedUserID THEN st.n0 ELSE @],
       "Put:" \o key)

SessionRemove(st, key) ==
    Op(IF key \in DOMAIN st.sd.values
       THEN [st EXCEPT !.sd.values = [k \in DOMAIN @ \ {key} |-> @[k]],
                       !.sd.status = "Modified",
                       !.sd.grant = IF key = authenticatedUserID THEN 0 ELSE @]
       ELSE st,
       "Remove:" \o key)

\* PopString: the value (the empty string when the key is absent) ...
PopStringValue(st, key) ==
    IF key \in DOMAIN st.sd.values THEN st.sd.values[key] ELSE ""

\* ... and the session without the key.
PopString(st, key) ==
    Op(IF key \in DOMAIN st.sd.values
       THEN [st EXCEPT !.sd.values = [k \in DOMAIN @ \ {key} |-> @[k]],
                       !.sd.status = "Modified"]
       ELSE st,
       "PopString:" \o key)

SessionGetInt(st, key) ==
    IF key \in DOMAIN st.sd.values THEN st.sd.values[key] ELSE 0

\* RenewToken: Store.Delete(old token), then a fresh token and status
\* Modified; the session is written under the new token at commit. An error
\* of the store or of the token generator is returned with nothing changed.
RenewTokenFails(rq) == rq.renew = "error"

\* A renewal that leaves the old token in the store.
RenewToken_keepsOld(st, rq) ==
    IF RenewTokenFails(rq) THEN Op(st, "RenewToken:error")
    ELSE Op([st EXCEPT !.sd.token = st.nextToken,
                       !.sd.status = "Modified",
                       !.nextToken = @ + 1],
            "RenewToken")

RenewToken(st, rq) ==
    IF RenewTokenFails(rq) THEN Op(st, "RenewToken:error")
    ELSE Op([st EXCEPT !.store = [t \in DOMAIN @ \ {st.sd.token} |-> @[t]],
                       !.sd.token = st.nextToken,
                       !.sd.status = "Modified",
                       !.nextToken = @ + 1],
            "RenewToken")

\* A commit that writes the session under every token of the store.
Commit_everyToken(st) ==
    LET tok == IF st.sd.token = NoToken THEN st.nextToken ELSE st.sd.token
    IN [st EXCEPT !.sd.token = tok,
                  !.nextToken = IF st.sd.token = NoToken THEN @ + 1 ELSE @,
                  !.store = [t \in DOMAIN @ \cup {tok} |->
                                [values |-> st.sd.values, grant |-> st.sd.grant,
                                 expired |-> st.sd.expired]],
                  !.trace = Append(@, "commit")]

\* Commit: a session that never had a token gets one; the values are
\* written to the store under the session's token.
Commit(st) ==
    LET tok == IF st.sd.token = NoToken THEN st.nextToken ELSE st.sd.token
    IN [st EXCEPT !.sd.token = tok,
                  !.nextToken = IF st.sd.token = NoToken THEN @ + 1 ELSE @,
                  !.store = [t \in DOMAIN @ \cup {tok} |->
                                IF t = tok
                                THEN [values |-> st.sd.values, grant |-> st.sd.grant,
                                      expired |-> st.sd.expired]
                                ELSE @[t]],
                  !.trace = Append(@, "commit")]

\* ---------------------------------------------------- templates.go
\* The page files of ui/html/pages, in the order filepath.Glob lists them.
Pages ==
    <<"about.gohtml", "account.gohtml", "create.gohtml", "home.gohtml", "login.gohtml",
      "password.gohtml", "signup.gohtml", "view.gohtml">>

PageNames == {Pages[i] : i \in DOMAIN Pages}

\* A Go map: nil or made, with its entries.
NilMap == [nil |-> TRUE, entries |-> [k \in {} |-> ""]]
MakeMap == [nil |-> FALSE, entries |-> [k \in {} |-> ""]]
MapSet(m, k, v) ==
    [m EXCEPT !.entries = [x \in DOMAIN @ \cup {k} |-> IF x = k THEN v ELSE @[x]]]

\* The template set of a page: base layout, partials, page.
TemplateSet(name) == "base+partials+" \o name

\* The files at startup: the page files present, those among them that do
\* not parse, and whether the base layout and the partials parse.
NoErr == "nil"

RECURSIVE ParsePages(_, _, _)
\* The loop of newTemplateCache over the remaining pages: an error of any
\* of the three parse calls returns nil and the error.
ParsePages(files, pages, cache) ==
    IF pages = <<>> THEN [cache |-> cache, err |-> NoErr]
    ELSE LET page == Head(pages)
         IN IF ~files.base THEN [cache |-> NilMap, err |-> "ParseFiles base.gohtml"]
            ELSE IF ~files.partials THEN [cache |-> NilMap, err |-> "ParseGlob partials"]
            ELSE IF page \in files.bad THEN [cache |-> NilMap, err |-> "ParseFiles " \o page]
            ELSE ParsePages(files, Tail(pages), MapSet(cache, page, TemplateSet(page)))

\* filepath.Glob: the page files present, in order (the pattern is well
\* formed, so Glob returns no error).
Glob(files) == SelectSeq(Pages, LAMBDA page : page \in files.present)

\* The loop returning the map built so far along with the error.
newTemplateCache_partial(files) ==
    LET RECURSIVE Loop(_, _)
        Loop(pages, cache) ==
            IF pages = <<>> THEN [cache |-> cache, err |-> NoErr]
            ELSE IF ~files.base \/ ~files.partials \/ Head(pages) \in files.bad
            THEN [cache |-> cache, err |-> "Parse"]
            ELSE Loop(Tail(pages), MapSet(cache, Head(pages), TemplateSet(Head(pages))))
    IN Loop(Glob(files), MakeMap)

newTemplateCache(files) == ParsePages(files, Glob(files), MakeMap)

\* time.Time: the wall clock of a location (day, minute of the day) and the
\* location's offset from UTC in minutes; the instant is the wall clock
\* less the offset. Days are the calendar days the model's times fall on;
\* the first one is the day of the zero time.
Days == <<"01 Jan 0001", "16 Mar 2022", "17 Mar 2022", "18 Mar 2022">>

MinutesPerDay == 1440

Time(day, minute, offset) == [day |-> day, minute |-> minute, offset |-> offset]

\* time.Time{}: January 1, year 1, 00:00 UTC.
ZeroTime == Time(1, 0, 0)

\* t.UTC(): the same instant on the wall clock of UTC.
UTC(t) ==
    LET m == t.minute - t.offset
    IN IF m < 0 THEN Time(t.day - 1, m + MinutesPerDay, 0)
       ELSE IF m >= MinutesPerDay THEN Time(t.day + 1, m - MinutesPerDay, 0)
       ELSE Time(t.day, m, 0)

\* t.IsZero(): the instant is that of the zero time, in any location.
IsZero(t) == UTC(t) = ZeroTime

Digits == <<"0", "1", "2", "3", "4", "5", "6", "7", "8", "9">>

TwoDigits(n) == Digits[(n \div 10) + 1] \o Digits[(n % 10) + 1]

\* t.Format("02 Jan 2006 at 15:04"): the wall clock of t's own location.
Format(t) ==
    Days[t.day] \o " at " \o TwoDigits(t.minute \div 60) \o ":" \o TwoDigits(t.minute % 60)

humanDate(t) == Format(t)

\* ---------------------------------------------------- main.go
\* openDB without the Ping.
openDB_noPing(dsn) == IF dsn = "openError" THEN "sql.Open" ELSE NoErr

\* openDB: sql.Open, then Ping; the error of either. dsn is what the data
\* source does: "ok", "openError", "pingError".
openDB(dsn) ==
    IF dsn = "openError" THEN "sql.Open"
    ELSE IF dsn = "pingError" THEN "db.Ping"
    ELSE NoErr

\* ---------------------------------------------------- helpers.go
Db(st, call) == [st EXCEPT !.db = Append(@, call)]

\* The error's text sent to the client.
serverError_detail(st, err) ==
    httpError([st EXCEPT !.errorLog = Append(@, err)], err, StatusInternalServerError)

serverError(st, err) ==
    httpError(Answer([st EXCEPT !.errorLog = Append(@, err)], "serverError"),
              StatusText(StatusInternalServerError), StatusInternalServerError)

clientError(st, status) ==
    httpError(Answer(st, "clientError"), StatusText(status), status)

notFound(st) == clientError(Answer(st, "notFound"), StatusNotFound)

\* The key misspelt.
isAuthenticated_otherKey(st) == SessionExists(st, "authenticatedUserId")

isAuthenticated(st) == SessionExists(st, authenticatedUserID)

\* The flash read with GetString: returned, and left in the session.
newTemplateData_peek(st) ==
    LET data == [Flash |-> PopStringValue(st, flashKey),
                 IsAuthenticated |-> SessionExists(st, authenticatedUserID)]
    IN [Op(st, "GetString:" \o flashKey) EXCEPT !.data = Append(@, data)]

\* newTemplateData: the struct literal's fields in order: PopString(flash),
\* then isAuthenticated on the session as PopString left it. The envelope
\* is appended to the request's list of envelopes.
newTemplateData(st) ==
    LET s1 == PopString(st, flashKey)
        data == [Flash |-> PopStringValue(st, flashKey),
                 IsAuthenticated |-> isAuthenticated(s1)]
    IN [s1 EXCEPT !.data = Append(@, data)]

\* The envelope the handler holds: the one its newTemplateData call made.
Data(st) == st.data[Len(st.data)]

\* The files of the repository: every page the handlers render is present
\* and everything parses; the data source answers.
RepoFiles ==
    [dsn |-> "ok", present |-> PageNames, bad |-> {}, base |-> TRUE, partials |-> TRUE]

\* app.templateCache as main builds it from the repository's files.
templateCache == newTemplateCache(RepoFiles).cache

\* ts.ExecuteTemplate(buf, "base", data): html/template escapes the set on
\* its first execution (once; st.escaped are the sets escaped so far), then
\* writes the page made from the set and the data into buf; an execution
\* that fails returns the error and leaves in buf what it wrote before.
ExecuteTemplate(st, rq, page, data) ==
    LET s1 == [st EXCEPT !.escaped = @ \cup {page}]
    IN IF rq.render = "execError"
       THEN [st |-> s1, err |-> "ExecuteTemplate",
             buf |-> [page |-> page, data |-> data, truncated |-> TRUE]]
       ELSE [st |-> s1, err |-> NoErr, buf |-> [page |-> page, data |-> data]]

\* The template executed straight into the ResponseWriter.
render_unbuffered(st, rq, status, page) ==
    IF page \notin DOMAIN st.cache.entries
    THEN serverError(st, "the template does not exist")
    ELSE LET out == ExecuteTemplate(st, rq, page, Data(st))
             s1 == Write(WriteHeader(out.st, status), out.buf)
         IN IF out.err # NoErr THEN serverError(s1, out.err) ELSE s1

\* The entry taken out of the cache by the call using it.
render_consumes(st, rq, status, page) ==
    IF page \notin DOMAIN st.cache.entries
    THEN serverError(st, "the template does not exist")
    ELSE LET out == ExecuteTemplate(st, rq, page, Data(st))
             s1 == [out.st EXCEPT !.cache.entries =
                        [x \in DOMAIN @ \ {page} |-> @[x]]]
         IN IF out.err # NoErr THEN serverError(s1, out.err)
            ELSE Write(WriteHeader(s1, status), out.buf)

\* render: a page missing from the cache or a failed execution is a server
\* error; the status and the buffer are written only after the execution.
render(st0, rq, status, page) ==
    LET st == Answer(st0, "render")
    IN
    IF page \notin DOMAIN st.cache.entries
    THEN serverError(st, "the template does not exist")
    ELSE LET out == ExecuteTemplate(st, rq, page, Data(st))
         IN IF out.err # NoErr THEN serverError(out.st, out.err)
            ELSE Write(WriteHeader(out.st, status), out.buf)

\* The validator embedded in the form structs (internal/validators): a map
\* from field to its first failing message and a list of messages tied to
\* no field.
NoErrors == [FieldErrors |-> [k \in {} |-> ""], NonFieldErrors |-> <<>>]

\* AddFieldError keeps the first message of a field.
AddFieldError(form, key, msg) ==
    IF key \in DOMAIN form.FieldErrors THEN form
    ELSE [form EXCEPT !.FieldErrors = [x \in DOMAIN @ \cup {key} |-> IF x = key THEN msg ELSE @[x]]]

AddNonFieldError(form, msg) == [form EXCEPT !.NonFieldErrors = Append(@, msg)]

\* CheckField adds the message when the check does not hold.
CheckField(form, ok, key, msg) == IF ok THEN form ELSE AddFieldError(form, key, msg)

Valid(form) == DOMAIN form.FieldErrors = {} /\ form.NonFieldErrors = <<>>

\* The handler's CheckField calls on the decoded form: with rq.form =
\* "invalid" the first check of the handler fails, else every check holds.
CheckFields(rq, key) ==
    CheckField(NoErrors, rq.form # "invalid", key, "This field cannot be blank")

\* data.Form = form, on the envelope newTemplateData just returned.
WithForm(st, form) ==
    [st EXCEPT !.data[Len(st.data)] =
        [Flash |-> @.Flash, IsAuthenticated |-> @.IsAuthenticated, Form |-> form]]

\* The decoder's error for an invalid target dropped instead of raised.
decodePostForm_noPanic(st, rq) == st

\* decodePostForm: ParseForm or Decode returns an error ("parseError"); an
\* invalid decoder target panics.
decodePostForm(st, rq) ==
    IF rq.form = "invalidTarget" THEN [st EXCEPT !.panic = "InvalidDecoderError"] ELSE st

decodeFails(rq) == rq.form = "parseError"

\* ---------------------------------------------------- handlers.go
\* The inputs of a request that the handlers read: rq.form is the outcome
\* of decoding and of the field checks ("parseError", "invalid", "valid"),
\* rq.db the outcome of the handler's persistence call ("ok", "domain" for
\* the domain error the handler tells apart, "error"), rq.uid the id
\* users.Authenticate returns, rq.render the outcome of the template
\* execution.
home(st, rq) ==
    LET s1 == Db(st, "snippets.Latest")
    IN IF rq.db # "ok" THEN serverError(s1, "Latest")
       ELSE render(newTemplateData(s1), rq, StatusOK, "home.gohtml")

\* strconv.Atoi of the id parameter, on the ids requests carry.
AtoiFails(seg) == seg \notin {"0", "1", "2", "3"}
Atoi(seg) ==
    CASE seg = "1" -> 1 [] seg = "2" -> 2 [] seg = "3" -> 3 [] OTHER -> 0

\* The snippets table: snippet 1 has its expiry ahead, snippet 2 has
\* expired; there is no other row.
SnippetRows == [id \in {1, 2} |-> [expired |-> id = 2]]

ErrNoRecord == "models: no matching record found"

\* The SELECT without the condition on expires.
SnippetGet_anyExpiry(id, rq) ==
    IF rq.db = "error" THEN "error"
    ELSE IF id \notin DOMAIN SnippetRows THEN ErrNoRecord
    ELSE NoErr

\* SnippetModel.Get: the row with the id and its expiry ahead; no such row
\* is sql.ErrNoRows, returned as ErrNoRecord; any other error of the query
\* as it is.
SnippetGet(id, rq) ==
    IF rq.db = "error" THEN "error"
    ELSE IF id \notin DOMAIN SnippetRows \/ SnippetRows[id].expired THEN ErrNoRecord
    ELSE NoErr

\* snippetView without the return after notFound.
snippetView_noReturn(st, rq) ==
    LET seg == rq.path[Len(rq.path)]
    IN IF AtoiFails(seg) \/ Atoi(seg) < 1 THEN notFound(st)
       ELSE LET s1 == Db(st, "snippets.Get")
                err == SnippetGet(Atoi(seg), rq)
            IN IF err = ErrNoRecord
               THEN render(newTemplateData(notFound(s1)), rq, StatusOK, "view.gohtml")
               ELSE IF err # NoErr THEN serverError(s1, "Get")
               ELSE render(newTemplateData(s1), rq, StatusOK, "view.gohtml")

snippetView(st, rq) ==
    LET seg == rq.path[Len(rq.path)]
    IN IF AtoiFails(seg) \/ Atoi(seg) < 1 THEN notFound(st)
       ELSE LET s1 == Db(st, "snippets.Get")
                err == SnippetGet(Atoi(seg), rq)
            IN IF err = ErrNoRecord THEN notFound(s1)
               ELSE IF err # NoErr THEN serverError(s1, "Get")
               ELSE render(newTemplateData(s1), rq, StatusOK, "view.gohtml")

snippetCreate(st, rq) == render(newTemplateData(st), rq, StatusOK, "create.gohtml")

\* The snippet inserted before the checks are looked at.
snippetCreatePost_insertsFirst(st, rq) ==
    IF decodeFails(rq) THEN clientError(st, StatusBadRequest)
    ELSE LET s1 == Db(decodePostForm(st, rq), "snippets.Insert")
         IN IF ~Valid(CheckFields(rq, "title"))
            THEN render(WithForm(newTemplateData(s1), CheckFields(rq, "title")), rq,
                        StatusUnprocessableEntity, "create.gohtml")
            ELSE IF rq.db # "ok" THEN serverError(s1, "Insert")
            ELSE httpRedirect(SessionPut(s1, flashKey, "Snippet successfully created"),
                              rq, "/snippet/view/1", StatusSeeOther)

snippetCreatePost(st, rq) ==
    IF decodeFails(rq) THEN clientError(st, StatusBadRequest)
    ELSE LET s0 == decodePostForm(st, rq)
         IN IF s0.panic # NoPanic THEN s0
            ELSE IF ~Valid(CheckFields(rq, "title"))
            THEN render(WithForm(newTemplateData(s0), CheckFields(rq, "title")), rq,
                        StatusUnprocessableEntity, "create.gohtml")
            ELSE LET s1 == Db(s0, "snippets.Insert")
                 IN IF rq.db # "ok" THEN serverError(s1, "Insert")
                    ELSE httpRedirect(SessionPut(s1, flashKey, "Snippet successfully created"),
                                      rq, "/snippet/view/1", StatusSeeOther)

userSignup(st, rq) == render(newTemplateData(st), rq, StatusOK, "signup.gohtml")

\* ErrDuplicateEmail not told apart from the other errors of Insert.
userSignupPost_anyErrorIs500(st, rq) ==
    IF decodeFails(rq) THEN clientError(st, StatusBadRequest)
    ELSE IF ~Valid(CheckFields(rq, "name"))
    THEN render(WithForm(newTemplateData(st), CheckFields(rq, "name")), rq,
                StatusUnprocessableEntity, "signup.gohtml")
    ELSE LET s1 == Db(st, "users.Insert")
         IN IF rq.db # "ok" THEN serverError(s1, "Insert")
            ELSE httpRedirect(
                   SessionPut(s1, flashKey, "Your signup was successful. Please log in."),
                   rq, "/user/login", StatusSeeOther)

userSignupPost(st, rq) ==
    IF decodeFails(rq) THEN clientError(st, StatusBadRequest)
    ELSE LET s0 == decodePostForm(st, rq)
         IN IF s0.panic # NoPanic THEN s0
            ELSE IF ~Valid(CheckFields(rq, "name"))
            THEN render(WithForm(newTemplateData(s0), CheckFields(rq, "name")), rq,
                        StatusUnprocessableEntity, "signup.gohtml")
            ELSE LET s1 == Db(s0, "users.Insert")
                     form == AddFieldError(CheckFields(rq, "name"), "email",
                                           "Email address is already in use")
                 IN IF rq.db = "domain"
                    THEN render(WithForm(newTemplateData(s1), form), rq,
                                StatusUnprocessableEntity, "signup.gohtml")
                    ELSE IF rq.db = "error" THEN serverError(s1, "Insert")
                    ELSE httpRedirect(
                           SessionPut(s1, flashKey, "Your signup was successful. Please log in."),
                           rq, "/user/login", StatusSeeOther)

userLogin(st, rq) == render(newTemplateData(st), rq, StatusOK, "login.gohtml")

\* The grant without the renewal: the user id is put into the session the
\* request arrived with.
loginGrant_noRenew(st, rq) ==
    LET s3 == SessionPut(st, authenticatedUserID, rq.uid)
        path == PopStringValue(s3, redirectAfterLogin)
        s4 == PopString(s3, redirectAfterLogin)
    IN IF path # "" THEN httpRedirect(s4, rq, path, StatusSeeOther)
       ELSE httpRedirect(s4, rq, "/snippet/create", StatusSeeOther)

\* The tail of userLoginPost, after users.Authenticate returned rq.uid:
\* The login that redirects without putting the user id in the session.
loginGrant_noPut(st, rq) ==
    LET s2 == RenewToken(st, rq)
    IN IF RenewTokenFails(rq) THEN serverError(s2, "RenewToken")
       ELSE httpRedirect(PopString(s2, redirectAfterLogin), rq, "/snippet/create",
                         StatusSeeOther)

\* RenewToken, Put(authenticatedUserID), PopString(redirectAfterLogin), the
\* redirect.
loginGrant(st, rq) ==
    LET s2 == RenewToken(st, rq)
    IN IF RenewTokenFails(rq) THEN serverError(s2, "RenewToken")
       ELSE LET s3 == SessionPut(s2, authenticatedUserID, rq.uid)
                path == PopStringValue(s3, redirectAfterLogin)
                s4 == PopString(s3, redirectAfterLogin)
            IN IF path # "" THEN httpRedirect(s4, rq, path, StatusSeeOther)
               ELSE httpRedirect(s4, rq, "/snippet/create", StatusSeeOther)

\* The login that renews the token before it asks users.Authenticate.
userLoginPost_renewsFirst(st, rq) ==
    IF decodeFails(rq) THEN clientError(st, StatusBadRequest)
    ELSE IF ~Valid(CheckFields(rq, "email"))
    THEN render(WithForm(newTemplateData(st), CheckFields(rq, "email")), rq,
                StatusUnprocessableEntity, "login.gohtml")
    ELSE LET s1 == Db(RenewToken(st, rq), "users.Authenticate")
             form == AddNonFieldError(CheckFields(rq, "email"),
                                      "Email or password is incorrect")
         IN IF rq.db = "domain"
            THEN render(WithForm(newTemplateData(s1), form), rq,
                        StatusUnprocessableEntity, "login.gohtml")
            ELSE IF rq.db = "error" THEN serverError(s1, "Authenticate")
            ELSE loginGrant(s1, rq)

userLoginPost(st, rq) ==
    IF decodeFails(rq) THEN clientError(st, StatusBadRequest)
    ELSE LET s0 == decodePostForm(st, rq)
         IN IF s0.panic # NoPanic THEN s0
            ELSE IF ~Valid(CheckFields(rq, "email"))
            THEN render(WithForm(newTemplateData(s0), CheckFields(rq, "email")), rq,
                        StatusUnprocessableEntity, "login.gohtml")
            ELSE LET s1 == Db(s0, "users.Authenticate")
                     form == AddNonFieldError(CheckFields(rq, "email"),
                                              "Email or password is incorrect")
                 IN IF rq.db = "domain"
                    THEN render(WithForm(newTemplateData(s1), form), rq,
                                StatusUnprocessableEntity, "login.gohtml")
                    ELSE IF rq.db = "error" THEN serverError(s1, "Authenticate")
                    ELSE loginGrant(s1, rq)

\* The logout that goes on when the renewal failed.
userLogoutPost_ignoresError(st, rq) ==
    LET s1 == RenewToken(st, rq)
        s2 == SessionRemove(s1, authenticatedUserID)
        s3 == SessionPut(s2, flashKey, "You've been logged out successfully!")
    IN httpRedirect(s3, rq, "/", StatusSeeOther)

\* The logout that renews the token and leaves the user id in the session.
userLogoutPost_keepsUser(st, rq) ==
    LET s1 == RenewToken(st, rq)
    IN IF RenewTokenFails(rq) THEN serverError(s1, "RenewToken")
       ELSE httpRedirect(SessionPut(s1, flashKey, "You've been logged out successfully!"),
                         rq, "/", StatusSeeOther)

userLogoutPost(st, rq) ==
    LET s1 == RenewToken(st, rq)
    IN IF RenewTokenFails(rq) THEN serverError(s1, "RenewToken")
       ELSE LET s2 == SessionRemove(s1, authenticatedUserID)
                s3 == SessionPut(s2, flashKey, "You've been logged out successfully!")
            IN httpRedirect(s3, rq, "/", StatusSeeOther)

\* A handler that makes an envelope, drops it and makes another.
about_twoEnvelopes(st, rq) ==
    render(newTemplateData(newTemplateData(st)), rq, StatusOK, "about.gohtml")

\* A handler other than the login that writes a user id into the session.
about_putsUser(st, rq) ==
    render(newTemplateData(SessionPut(st, authenticatedUserID, 1)), rq, StatusOK,
           "about.gohtml")

about(st, rq) == render(newTemplateData(st), rq, StatusOK, "about.gohtml")

accountView(st, rq) ==
    LET s1 == Db(Op(st, "GetInt:" \o authenticatedUserID), "users.Get")
    IN IF rq.db = "domain" THEN httpRedirect(s1, rq, "/user/login", StatusSeeOther)
       ELSE IF rq.db = "error" THEN serverError(s1, "Get")
       ELSE render(newTemplateData(s1), rq, StatusOK, "account.gohtml")

accountPasswordUpdate(st, rq) == render(newTemplateData(st), rq, StatusOK, "password.gohtml")

accountPasswordUpdatePost(st, rq) ==
    IF decodeFails(rq) THEN clientError(st, StatusBadRequest)
    ELSE LET s0 == decodePostForm(st, rq)
         IN IF s0.panic # NoPanic THEN s0
            ELSE IF ~Valid(CheckFields(rq, "currentPassword"))
            THEN render(WithForm(newTemplateData(s0), CheckFields(rq, "currentPassword")), rq,
                        StatusUnprocessableEntity, "password.gohtml")
            ELSE LET s1 == Db(Op(s0, "GetInt:" \o authenticatedUserID), "users.PasswordUpdate")
                     form == AddFieldError(CheckFields(rq, "currentPassword"), "currentPassword",
                                           "Current password is incorrect")
                 IN IF rq.db = "domain"
                    THEN render(WithForm(newTemplateData(s1), form), rq,
                                StatusUnprocessableEntity, "password.gohtml")
                    ELSE IF rq.db = "error" THEN serverError(s1, "PasswordUpdate")
                    ELSE httpRedirect(
                           SessionPut(s1, flashKey, "Your password has been updated!"),
                           rq, "/account/view", StatusSeeOther)

ping(st, rq) == Write(st, [text |-> "OK"])

\* http.FileServer over the embedded files: the file, or 404.
fileServer(st, rq) ==
    IF rq.db = "ok" THEN Write(st, [text |-> "file"]) ELSE httpError(st, "404 page not found", StatusNotFound)

\* router.NotFound
routerNotFound(st, rq) == notFound(st)

\* httprouter's default answer to a path registered under other methods.
methodNotAllowed(st, rq) ==
    httpError(HeaderSet(st, "Allow", "GET"),
              StatusText(StatusMethodNotAllowed), StatusMethodNotAllowed)

\* The dynamic chain with the CSRF guard after authenticate.
dynamic_guardLast == <<"LoadAndSave", "authenticate", "noSurf">>

\* The dynamic chain as an append in place would leave it.
dynamic_withGate == <<"LoadAndSave", "noSurf", "authenticate", "requireAuthentication">>

\* ---------------------------------------------------- routes.go
\* alice.New
standard == <<"recoverPanic", "logRequest", "secureHeaders">>
dynamic == <<"LoadAndSave", "noSurf", "authenticate">>

\* alice.Chain.Append: a new chain of the receiver's constructors followed
\* by the given one.
ChainAppend(chain, constructor) == chain \o <<constructor>>

protected == ChainAppend(dynamic, "requireAuthentication")

\* The static files and ping registered behind the session manager.
NoChain_session == <<"LoadAndSave">>

NoChain == <<>>

\* A path is its segments; ":id" matches one segment, "*filepath" the rest.
Route(method, rooted, pattern, chain, handler) ==
    [method |-> method, rooted |-> rooted, pattern |-> pattern, chain |-> chain,
     handler |-> handler]

\* The registrations of routes(), in order. rooted: the pattern begins with
\* "/" (the last registration's does not).
routes ==
    << Route("GET", TRUE, <<"static", "*filepath">>, NoChain, "fileServer"),
       Route("GET", TRUE, <<"ping">>, NoChain, "ping"),
       Route("GET", TRUE, <<>>, dynamic, "home"),
       Route("GET", TRUE, <<"snippet", "view", ":id">>, dynamic, "snippetView"),
       Route("GET", TRUE, <<"about">>, dynamic, "about"),
       Route("GET", TRUE, <<"user", "signup">>, dynamic, "userSignup"),
       Route("POST", TRUE, <<"user", "signup">>, dynamic, "userSignupPost"),
       Route("GET", TRUE, <<"user", "login">>, dynamic, "userLogin"),
       Route("POST", TRUE, <<"user", "login">>, dynamic, "userLoginPost"),
       Route("GET", TRUE, <<"account", "view">>, protected, "accountView"),
       Route("GET", TRUE, <<"snippet", "create">>, protected, "snippetCreate"),
       Route("POST", TRUE, <<"snippet", "create">>, protected, "snippetCreatePost"),
       Route("POST", TRUE, <<"user", "logout">>, protected, "userLogoutPost"),
       Route("GET", TRUE, <<"account", "password", "update">>, protected,
             "accountPasswordUpdate"),
       Route("POST", FALSE, <<"account", "password", "update">>, protected,
             "accountPasswordUpdatePost") >>

\* httprouter refuses a pattern that does not begin with "/": the
\* registration never enters the tree.
Registered(i) == routes[i].rooted

InPattern(pattern, seg) == \E i \in DOMAIN pattern : pattern[i] = seg

RECURSIVE Match(_, _)
Match(pattern, path) ==
    IF pattern = <<>> THEN path = <<>>
    ELSE IF Head(pattern) = "*filepath" THEN TRUE
    ELSE /\ path # <<>>
         /\ (Head(pattern) = ":id" \/ Head(pattern) = Head(path))
         /\ Match(Tail(pattern), Tail(path))

\* httprouter's lookup: the handler registered for the method and path;
\* 405 when the path is registered under another method only; else the
\* router's NotFound handler.
Lookup(method, path) ==
    LET hits == {i \in DOMAIN routes :
                    Registered(i) /\ routes[i].method = method /\ Match(routes[i].pattern, path)}
        others == {i \in DOMAIN routes : Registered(i) /\ Match(routes[i].pattern, path)}
    IN IF hits # {}
       THEN routes[CHOOSE i \in hits : \A j \in hits : i <= j]
       ELSE IF others # {}
       THEN Route(method, TRUE, path, NoChain, "methodNotAllowed")
       ELSE Route(method, TRUE, path, NoChain, "routerNotFound")

\* ---------------------------------------------------- middleware.go
handle(st, rq, h) ==
    CASE h = "home" -> home(st, rq)
      [] h = "snippetView" -> snippetView(st, rq)
      [] h = "about" -> about(st, rq)
      [] h = "userSignup" -> userSignup(st, rq)
      [] h = "userSignupPost" -> userSignupPost(st, rq)
      [] h = "userLogin" -> userLogin(st, rq)
      [] h = "userLoginPost" -> userLoginPost(st, rq)
      [] h = "accountView" -> accountView(st, rq)
      [] h = "snippetCreate" -> snippetCreate(st, rq)
      [] h = "snippetCreatePost" -> snippetCreatePost(st, rq)
      [] h = "userLogoutPost" -> userLogoutPost(st, rq)
      [] h = "accountPasswordUpdate" -> accountPasswordUpdate(st, rq)
      [] h = "accountPasswordUpdatePost" -> accountPasswordUpdatePost(st, rq)
      [] h = "ping" -> ping(st, rq)
      [] h = "fileServer" -> fileServer(st, rq)
      [] h = "methodNotAllowed" -> methodNotAllowed(st, rq)
      [] OTHER -> routerNotFound(st, rq)

\* The route handler at the end of a chain. A runtime fault in the handler
\* (rq.panicAt = "handler") is raised when its work is done, so that
\* everything it can have done before faulting has been done.
ServeHandler(st, rq, h) ==
    LET s1 == handle(Enter(st, h), rq, h)
    IN IF s1.panic # NoPanic THEN s1
       ELSE IF rq.panicAt = "handler" THEN [s1 EXCEPT !.panic = "runtime error"]
       ELSE Leave(s1, h)

\* Serve(chain, h, rq, st): the handler chain.Then(h), applied to the request.
RECURSIVE Serve(_, _, _, _)

\* The headers set after the rest of the chain has answered.
secureHeaders_late(next, h, rq, st) ==
    LET s1 == Serve(next, h, rq, Enter(st, "secureHeaders"))
        s2 == HeaderSet(s1, "Content-Security-Policy",
                "default-src 'self'; style-src 'self' fonts.googleapis.com; font-src fonts.gstatic.com")
        s3 == HeaderSet(s2, "Referrer-Policy", "origin-when-cross-origin")
        s4 == HeaderSet(s3, "X-Content-Type-Options", "nosniff")
        s5 == HeaderSet(s4, "X-Frame-Options", "deny")
        s6 == HeaderSet(s5, "X-XSS-Protection", "0")
    IN IF s1.panic # NoPanic THEN s1 ELSE Leave(s6, "secureHeaders")

secureHeaders(next, h, rq, st) ==
    LET s1 == HeaderSet(Enter(st, "secureHeaders"), "Content-Security-Policy",
                "default-src 'self'; style-src 'self' fonts.googleapis.com; font-src fonts.gstatic.com")
        s2 == HeaderSet(s1, "Referrer-Policy", "origin-when-cross-origin")
        s3 == HeaderSet(s2, "X-Content-Type-Options", "nosniff")
        s4 == HeaderSet(s3, "X-Frame-Options", "deny")
        s5 == HeaderSet(s4, "X-XSS-Protection", "0")
        s6 == Serve(next, h, rq, s5)
    IN IF s6.panic # NoPanic THEN s6 ELSE Leave(s6, "secureHeaders")

logRequest(next, h, rq, st) ==
    LET s1 == [Enter(st, "logRequest") EXCEPT !.infoLog = Append(@, <<rq.method, rq.path>>)]
        s2 == Serve(next, h, rq, s1)
    IN IF s2.panic # NoPanic THEN s2 ELSE Leave(s2, "logRequest")

\* The recovery without the Connection header.
recoverPanic_keepAlive(next, h, rq, st) ==
    LET s1 == Serve(next, h, rq, Enter(st, "recoverPanic"))
    IN IF s1.panic # NoPanic
       THEN LET s2 == [s1 EXCEPT !.panic = NoPanic, !.buffered = FALSE]
            IN Leave(serverError([s2 EXCEPT !.recovered = s1.panic], s1.panic), "recoverPanic")
       ELSE Leave(s1, "recoverPanic")

\* recoverPanic: the deferred function recovers a panic of the inner chain,
\* sets Connection: close on its own ResponseWriter and calls serverError.
recoverPanic(next, h, rq, st) ==
    LET s1 == Serve(next, h, rq, Enter(st, "recoverPanic"))
    IN IF s1.panic # NoPanic
       THEN LET s2 == [s1 EXCEPT !.panic = NoPanic, !.buffered = FALSE]
                s3 == HeaderSet(s2, "Connection", "close")
            IN Leave(serverError([s3 EXCEPT !.recovered = s1.panic], s1.panic), "recoverPanic")
       ELSE Leave(s1, "recoverPanic")

\* The gate without the Cache-Control header.
requireAuthentication_noHeader(next, h, rq, st) ==
    LET s1 == Enter(st, "requireAuthentication")
    IN IF ~isAuthenticated(s1)
       THEN Leave(httpRedirect(s1, rq, "/user/login", StatusSeeOther), "requireAuthentication")
       ELSE LET s2 == Serve(next, h, rq, s1)
            IN IF s2.panic # NoPanic THEN s2 ELSE Leave(s2, "requireAuthentication")

\* The gate without its return: it redirects, then calls the next handler.
requireAuthentication_noReturn(next, h, rq, st) ==
    LET s1 == Enter(st, "requireAuthentication")
        s2 == IF ~isAuthenticated(s1)
              THEN httpRedirect(s1, rq, "/user/login", StatusSeeOther)
              ELSE HeaderAdd(s1, "Cache-Control", "no-store")
        s3 == Serve(next, h, rq, s2)
    IN IF s3.panic # NoPanic THEN s3 ELSE Leave(s3, "requireAuthentication")

\* The gate that records the requested path before it redirects.
requireAuthentication_recordsPath(next, h, rq, st) ==
    LET s1 == Enter(st, "requireAuthentication")
    IN IF ~isAuthenticated(s1)
       THEN Leave(httpRedirect(SessionPut(s1, redirectAfterLogin, "/account/view"), rq,
                               "/user/login", StatusSeeOther),
                  "requireAuthentication")
       ELSE LET s2 == Serve(next, h, rq, HeaderAdd(s1, "Cache-Control", "no-store"))
            IN IF s2.panic # NoPanic THEN s2 ELSE Leave(s2, "requireAuthentication")

requireAuthentication(next, h, rq, st) ==
    LET s1 == Enter(st, "requireAuthentication")
    IN IF ~isAuthenticated(s1)
       THEN Leave(httpRedirect(s1, rq, "/user/login", StatusSeeOther), "requireAuthentication")
       ELSE LET s2 == Serve(next, h, rq, HeaderAdd(s1, "Cache-Control", "no-store"))
            IN IF s2.panic # NoPanic THEN s2 ELSE Leave(s2, "requireAuthentication")

\* nosurf: safe methods pass; any other method passes only when the token
\* sent with the request is the one of the CSRF cookie. A request without
\* the cookie gets a new token, which nothing sent can match.
SafeMethods == {"GET", "HEAD", "OPTIONS", "TRACE"}

\* A comparison that ignores the token sent.
verifyToken_cookieOnly(realToken, sentToken) == realToken # "none"

verifyToken(realToken, sentToken) == realToken # "none" /\ sentToken = realToken

noSurf(next, h, rq, st) ==
    LET s1 == HeaderAdd(Enter(st, "noSurf"), "Vary", "Cookie")
    IN IF rq.method \in SafeMethods \/ verifyToken(rq.csrfCookie, rq.csrfSent)
       THEN LET s2 == Serve(next, h, rq, s1)
            IN IF s2.panic # NoPanic THEN s2 ELSE Leave(s2, "noSurf")
       ELSE Leave(httpError(s1, "", StatusBadRequest), "noSurf")

\* authenticate: derives the request's authentication data for the
\* templates and passes the request on.
authenticate(next, h, rq, st) ==
    LET s1 == Serve(next, h, rq, Enter(st, "authenticate"))
    IN IF s1.panic # NoPanic THEN s1 ELSE Leave(s1, "authenticate")

\* scs LoadAndSave, after the Load: the inner chain writes to a buffered
\* writer whose Header() is the connection's; when the chain has returned,
\* a modified session is committed and its token sent as the session
\* cookie, then the buffered status and body are written. A panic of the
\* inner chain passes through: nothing is committed or written.
LoadAndSave(next, h, rq, st) ==
    LET s1 == Serve(next, h, rq, [Enter(st, "LoadAndSave") EXCEPT !.buffered = TRUE])
        s2 == [s1 EXCEPT !.buffered = FALSE]
        s3 == IF s2.sd.status = "Modified"
              THEN LET c == Commit(s2) IN [c EXCEPT !.w.setCookie = c.sd.token]
              ELSE s2
        s4 == HeaderAdd(s3, "Vary", "Cookie")
        s5 == IF s4.bw.code # 0 THEN WriteHeader(s4, s4.bw.code) ELSE WriteHeader(s4, StatusOK)
    IN IF s1.panic # NoPanic THEN s1
       ELSE Leave([s5 EXCEPT !.w.body = @ \o s4.bw.body], "LoadAndSave")

\* httprouter.Router.ServeHTTP
router(st, rq) ==
    LET s1 == Enter(st, "router")
        rt == Lookup(rq.method, rq.path)
    IN IF rq.panicAt = "router" THEN [s1 EXCEPT !.panic = "runtime error"]
       ELSE LET s2 == Serve(rt.chain, rt.handler, rq, s1)
            IN IF s2.panic # NoPanic THEN s2 ELSE Leave(s2, "router")

Serve(chain, h, rq, st) ==
    IF chain = <<>>
    THEN IF h = "router" THEN router(st, rq) ELSE ServeHandler(st, rq, h)
    ELSE LET c == Head(chain)
             next == Tail(chain)
         IN CASE c = "recoverPanic" -> recoverPanic(next, h, rq, st)
              [] c = "logRequest" -> logRequest(next, h, rq, st)
              [] c = "secureHeaders" -> secureHeaders(next, h, rq, st)
              [] c = "LoadAndSave" -> LoadAndSave(next, h, rq, st)
              [] c = "noSurf" -> noSurf(next, h, rq, st)
              [] c = "authenticate" -> authenticate(next, h, rq, st)
              [] c = "requireAuthentication" -> requireAuthentication(next, h, rq, st)

\* routes(): standard.Then(router)
app(rq, st) == Serve(standard, "router", rq, st)

\* ------------------------------------------------------------ requests
Paths ==
    { <<>>, <<"snippet", "view", "1">>, <<"snippet", "view", "2">>, <<"snippet", "view", "3">>,
      <<"snippet", "view", "0">>, <<"snippet", "view", "x">>, <<"about">>, <<"user", "signup">>, <<"user", "login">>,
      <<"account", "view">>, <<"snippet", "create">>, <<"user", "logout">>,
      <<"account", "password", "update">>, <<"static", "css">>, <<"ping">>, <<"nope">> }

RouteOf(rq) == Lookup(rq.method, rq.path)

HasSession(rq) == RouteOf(rq).chain # NoChain

DecodingHandlers ==
    {"snippetCreatePost", "userSignupPost", "userLoginPost", "accountPasswordUpdatePost"}
PersistingHandlers ==
    DecodingHandlers \cup {"home", "snippetView", "accountView", "fileServer"}

\* The handler runs unless the CSRF guard rejects the request (or the gate
\* does, which depends on the session).
PastGuard(rq) ==
    ~HasSession(rq) \/ rq.method \in SafeMethods \/ verifyToken(rq.csrfCookie, rq.csrfSent)

\* The id of a snippetView request is a positive integer.
IdOk(rq) == ~AtoiFails(rq.path[Len(rq.path)]) /\ Atoi(rq.path[Len(rq.path)]) >= 1

ReadsDb(rq) ==
    LET h == RouteOf(rq).handler
    IN /\ PastGuard(rq) /\ h \in PersistingHandlers
       /\ h \in DecodingHandlers => rq.form = "valid"
       /\ h = "snippetView" => IdOk(rq)

Grants(rq) == RouteOf(rq).handler = "userLoginPost" /\ ReadsDb(rq) /\ rq.db = "ok"

Renews(rq) == Grants(rq) \/ (PastGuard(rq) /\ RouteOf(rq).handler = "userLogoutPost")

Renders(rq) ==
    LET h == RouteOf(rq).handler
    IN /\ PastGuard(rq)
       /\ h \notin {"userLogoutPost", "ping", "fileServer", "methodNotAllowed", "routerNotFound"}
       /\ IF h \in DecodingHandlers
          THEN rq.form = "invalid" \/ (rq.form = "valid" /\ rq.db = "domain"
                                        /\ h # "snippetCreatePost")
          ELSE /\ h \in PersistingHandlers => rq.db = "ok"
               /\ h = "snippetView" =>
                     IdOk(rq) /\ SnippetGet(Atoi(rq.path[Len(rq.path)]), rq) = NoErr

\* The faults injected into route handlers: in a handler of a session
\* route, on the path on which it does all of its work (every check passes,
\* every call succeeds), any user.
FaultPoint(rq) ==
    /\ HasSession(rq) /\ PastGuard(rq)
    /\ rq.form = "valid" /\ rq.db = "ok" /\ rq.render = "ok" /\ rq.renew = "ok"
    /\ RouteOf(rq).handler = "snippetView" => Renders(rq)

\* An input no code reads on the request's path has its default value: two
\* requests that differ only there are served alike.
Canonical(rq) ==
    /\ (rq.method = "POST" /\ HasSession(rq)) \/ (rq.csrfCookie = "none" /\ rq.csrfSent = "none")
    /\ rq.csrfCookie = "none" => rq.csrfSent = "none"
    /\ RouteOf(rq).handler \in DecodingHandlers \/ rq.form = "valid"
    /\ ReadsDb(rq) \/ rq.db = "ok"
    /\ RouteOf(rq).handler \in {"home", "fileServer", "snippetView"} => rq.db # "domain"
    /\ RouteOf(rq).handler = "snippetCreatePost" => rq.db # "domain"
    /\ Grants(rq) \/ rq.uid = 1
    /\ Renews(rq) \/ rq.renew = "ok"
    /\ Renders(rq) \/ rq.render = "ok"
    /\ rq.renew = "error" => rq.uid = 1
    /\ rq.panicAt = "handler" => FaultPoint(rq)
    /\ rq.panicAt = "router" =>
          rq = [method |-> "GET", path |-> <<>>, csrfCookie |-> "none", csrfSent |-> "none",
                form |-> "valid", db |-> "ok", uid |-> 1, render |-> "ok", renew |-> "ok",
                panicAt |-> "router"]

AllInputs ==
    {rq \in [method : {"GET", "POST"}, path : Paths, csrfCookie : {"none", "a"},
             csrfSent : {"none", "a", "b"}, form : {"parseError", "invalid", "valid"},
             db : {"ok", "domain", "error"}, uid : Users, render : {"ok", "execError"},
             renew : {"ok", "error"}, panicAt : {"none", "router", "handler"}] :
        Canonical(rq)}

\* The requests of the model, enumerated once.
Requests == {rq : rq \in AllInputs}

IsSessionRequest(rq) == HasSession(rq) /\ rq.panicAt # "router"
SessionRequests == {rq : rq \in {x \in Requests : IsSessionRequest(x)}}
DirectRequests == {rq : rq \in {x \in Requests : ~IsSessionRequest(x)}}

\* --------------------------------------------------------------- state
VARIABLES
    store,      \* the session store: token -> session values
    nextToken,  \* the next token generateToken returns
    inflight,   \* per request slot: the session data its Load produced, or None
    served,     \* the request just served, with its response, or None
    shown,      \* history: the tokens whose stored flash a newTemplateData call
                \* has already returned, with how that request ended
    proc,       \* the process: where main is and what it has built
    call        \* the render calls made on their own, or None

vars == <<store, nextToken, inflight, served, shown, proc, call>>

\* The process serving: main has opened the store, built the cache from the
\* repository's files and started the server on the handler of routes().
Serving ==
    [pc |-> "serving", env |-> RepoFiles, db |-> "open", cache |-> templateCache,
     errorLog |-> <<>>, bound |-> TRUE]

Init ==
    /\ store = [t \in {} |-> [values |-> NoValues, grant |-> 0, expired |-> FALSE]]
    /\ nextToken = 1
    /\ inflight = [r \in Req |-> None]
    /\ served = None
    /\ shown = [t \in {} |-> ""]
    /\ proc = Serving
    /\ call = None

\* The state a request starts from.
start(sd) ==
    [w |-> newResponse, bw |-> [code |-> 0, body |-> <<>>], buffered |-> FALSE,
     sd |-> sd, store |-> store, nextToken |-> nextToken, n0 |-> nextToken,
     trace |-> <<>>, ops |-> <<>>, db |-> <<>>, errorLog |-> <<>>, infoLog |-> <<>>,
     data |-> <<>>, panic |-> NoPanic, recovered |-> NoPanic, cache |-> proc.cache,
     escaped |-> {}, answers |-> <<>>]

\* A session found whatever its expiry.
Find_ignoresExpiry(cookie) ==
    IF cookie \in DOMAIN store
    THEN [token |-> cookie, values |-> store[cookie].values, status |-> "Unmodified",
          grant |-> store[cookie].grant, expired |-> store[cookie].expired]
    ELSE newSessionData

\* scs Load: the session stored under the cookie's token with its expiry
\* still ahead (the store's Find selects on the expiry), or a new one.
Find(cookie) ==
    IF cookie \in DOMAIN store /\ ~store[cookie].expired
    THEN [token |-> cookie, values |-> store[cookie].values, status |-> "Unmodified",
          grant |-> store[cookie].grant, expired |-> FALSE]
    ELSE newSessionData

\* The cookie's token names a stored session that has expired.
Stale(cookie) == cookie \in DOMAIN store /\ store[cookie].expired

\* Some newTemplateData call of the request returned a flash message.
ReadFlash(st) == \E i \in DOMAIN st.data : st.data[i].Flash # ""

HasFlash(st, t) == t \in DOMAIN st.store /\ flashKey \in DOMAIN st.store[t].values

Committed(st) == \E i \in DOMAIN st.trace : st.trace[i] = "commit"

\* The history of flash reads after a request: a token stays while its
\* stored session is not written again; the request's token enters when
\* the request read the flash and the store still holds it.
Shown(cookie, st) ==
    LET wrote(t) == Committed(st) /\ t = st.sd.token
        reread == ReadFlash(st) /\ HasFlash(st, cookie)
        kept == {t \in DOMAIN shown : HasFlash(st, t) /\ ~wrote(t)}
    IN [t \in kept \cup (IF reread THEN {cookie} ELSE {}) |->
          IF reread /\ t = cookie
          THEN (IF st.recovered # NoPanic THEN "panic" ELSE "saved")
          ELSE shown[t]]

record(rq, cookie, sd, stale, st) ==
    [rq |-> rq, cookie |-> cookie, loaded |-> sd, stale |-> stale, sd |-> st.sd, w |-> st.w,
     trace |-> st.trace, ops |-> st.ops, db |-> st.db, errorLog |-> st.errorLog,
     data |-> st.data, recovered |-> st.recovered, n0 |-> st.n0, storeBefore |-> store,
     answers |-> st.answers,
     reread |-> ReadFlash(st) /\ cookie \in DOMAIN shown]

\* A request on a session route arrives with any token ever issued, or
\* none, as its session cookie; LoadAndSave loads its session.
Load(r) ==
    /\ served = None
    /\ inflight[r] = None
    /\ \E cookie \in {NoToken} \cup (1..(nextToken - 1)) :
          inflight' = [inflight EXCEPT ![r] = [cookie |-> cookie, sd |-> Find(cookie),
                                               stale |-> Stale(cookie)]]
    /\ UNCHANGED <<store, nextToken, served, shown, proc, call>>

\* The composed handler serves a request of reqs with the loaded session.
ServeFrom(r, reqs) ==
    /\ served = None
    /\ inflight[r] # None
    /\ \E rq \in reqs :
          LET st == app(rq, start(inflight[r].sd))
          IN /\ st.nextToken <= MaxToken + 1
             /\ store' = st.store
             /\ nextToken' = st.nextToken
             /\ served' = record(rq, inflight[r].cookie, inflight[r].sd, inflight[r].stale, st)
             /\ shown' = Shown(inflight[r].cookie, st)
    /\ inflight' = [inflight EXCEPT ![r] = None]
    /\ UNCHANGED <<proc, call>>

ServeRequest(r) == ServeFrom(r, SessionRequests)

\* A request on a route without session (static file, ping, no route, wrong
\* method) or one that faults in the router.
ServeDirect ==
    /\ served = None
    /\ \E rq \in DirectRequests :
          LET st == app(rq, start(newSessionData))
          IN /\ served' = record(rq, NoToken, newSessionData, FALSE, st)
             /\ store' = st.store
             /\ nextToken' = st.nextToken
    /\ UNCHANGED <<inflight, shown, proc, call>>

\* The response has gone to the client.
Respond ==
    /\ served # None
    /\ served' = None
    /\ UNCHANGED <<store, nextToken, inflight, shown, proc, call>>

\* One request at a time.
Next ==
    \/ Load(1)
    \/ ServeRequest(1)
    \/ ServeDirect
    \/ Respond

Spec == Init /\ [][Next]_vars

\* The deadline of a stored session passes: 12 hours after its creation.
\* The deadline belongs to the session, so it has passed as well for the
\* copy a request in flight holds, which is committed with it.
Expire ==
    /\ served = None
    /\ \E t \in DOMAIN store :
          /\ ~store[t].expired
          /\ store' = [store EXCEPT ![t].expired = TRUE]
          /\ inflight' = [r \in Req |->
                IF inflight[r] # None /\ inflight[r].sd.token = t
                THEN [inflight[r] EXCEPT !.sd.expired = TRUE]
                ELSE inflight[r]]
    /\ UNCHANGED <<nextToken, served, shown, proc, call>>

\* The requests on which every check passes and every call succeeds.
SucceedingRequests ==
    {rq : rq \in {x \in SessionRequests :
                    /\ PastGuard(x) /\ x.panicAt = "none"
                    /\ x.form = "valid" /\ x.db = "ok" /\ x.render = "ok"
                    /\ x.renew = "ok"
                    /\ RouteOf(x).handler = "snippetView" => Renders(x)}}

ServeSucceeding(r) == ServeFrom(r, SucceedingRequests)

\* The session routes, with time passing.
NextExpiry ==
    \/ Load(1)
    \/ ServeSucceeding(1)
    \/ Respond
    \/ Expire

SpecExpiry == Init /\ [][NextExpiry]_vars

\* ------------------------------------------------------------ startup
\* What main can find at startup: a data source that fails, or one that
\* answers and any set of page files, any of which may not parse, with a
\* base layout and partials that parse or not.
Envs ==
    {[RepoFiles EXCEPT !.dsn = d] : d \in {"openError", "pingError"}}
        \cup UNION {{[dsn |-> "ok", present |-> p, bad |-> b, base |-> bs, partials |-> pt] :
                        b \in SUBSET p, bs \in BOOLEAN, pt \in BOOLEAN} :
                    p \in SUBSET PageNames}

InitStartup ==
    /\ store = [t \in {} |-> [values |-> NoValues, grant |-> 0, expired |-> FALSE]]
    /\ nextToken = 1
    /\ inflight = [r \in Req |-> None]
    /\ served = None
    /\ shown = [t \in {} |-> ""]
    /\ call = None
    /\ \E env \in Envs :
          proc = [pc |-> "openDB", env |-> env, db |-> "closed", cache |-> NilMap,
                  errorLog |-> <<>>, bound |-> FALSE]

\* errorLog.Fatal: the error is logged, the process exits.
Fatal(err) == [proc EXCEPT !.errorLog = Append(@, err), !.pc = "exit"]

\* main: db, err := openDB(*dsn)
OpenDB ==
    /\ proc.pc = "openDB"
    /\ LET err == openDB(proc.env.dsn)
       IN proc' = IF err # NoErr THEN Fatal(err)
                  ELSE [proc EXCEPT !.db = "open", !.pc = "newTemplateCache"]
    /\ UNCHANGED <<store, nextToken, inflight, served, shown, call>>

\* main: templateCache, err := newTemplateCache()
BuildCache ==
    /\ proc.pc = "newTemplateCache"
    /\ LET out == newTemplateCache(proc.env)
       IN proc' = IF out.err # NoErr THEN Fatal(out.err)
                  ELSE [proc EXCEPT !.cache = out.cache, !.pc = "routes"]
    /\ UNCHANGED <<store, nextToken, inflight, served, shown, call>>

\* main: the application and the server are made, with app.routes() as the
\* server's handler, then ListenAndServeTLS binds the socket. The router
\* panics on a pattern that does not begin with "/", which ends the process
\* before the server exists.
StartServer ==
    /\ proc.pc = "routes"
    /\ proc' = IF \E i \in DOMAIN routes : ~Registered(i)
               THEN [proc EXCEPT !.pc = "panic"]
               ELSE [proc EXCEPT !.bound = TRUE, !.pc = "serving"]
    /\ UNCHANGED <<store, nextToken, inflight, served, shown, call>>

NextStartup ==
    \/ OpenDB
    \/ BuildCache
    \/ StartServer

SpecStartup == InitStartup /\ [][NextStartup]_vars

\* ------------------------------------------------------------- render
\* app.render called twice by one application: on a cache built from some
\* of the page files, for a page and a status a handler passes or a page no
\* file has, with the data of a newTemplateData call. The execution of a
\* set on given data is a function of both: it fails on both calls or on
\* neither.
Caches == {newTemplateCache([RepoFiles EXCEPT !.present = p]).cache : p \in SUBSET PageNames}

RenderInputs ==
    [cache : Caches,
     page : PageNames \cup {"missing.gohtml"},
     status : {StatusOK, StatusUnprocessableEntity},
     render : {"ok", "execError"},
     data : [Flash : {"", "saved"}, IsAuthenticated : BOOLEAN]]

\* What a call leaves: the response, the error log, the cache and the sets
\* escaped.
NoOut == [w |-> newResponse, errorLog |-> <<>>, cache |-> NilMap, escaped |-> {}]

Out(st) == [w |-> st.w, errorLog |-> st.errorLog, cache |-> st.cache, escaped |-> st.escaped]

\* One call of render(w, status, page, data) with a new ResponseWriter.
RenderCall(in, cache, escaped) ==
    Out(render([start(newSessionData) EXCEPT !.cache = cache, !.escaped = escaped,
                                             !.data = <<in.data>>],
               in, in.status, in.page))

InitRender ==
    /\ store = [t \in {} |-> [values |-> NoValues, grant |-> 0, expired |-> FALSE]]
    /\ nextToken = 1
    /\ inflight = None
    /\ served = None
    /\ shown = [t \in {} |-> ""]
    /\ proc = Serving
    /\ call \in {[in |-> in, pc |-> "ready", first |-> NoOut, second |-> NoOut] :
                    in \in RenderInputs}

RenderFirst ==
    /\ call.pc = "ready"
    /\ call' = [call EXCEPT !.pc = "once",
                            !.first = RenderCall(call.in, call.in.cache, {})]
    /\ UNCHANGED <<store, nextToken, inflight, served, shown, proc>>

RenderSecond ==
    /\ call.pc = "once"
    /\ call' = [call EXCEPT !.pc = "twice",
                            !.second = RenderCall(call.in, call.first.cache,
                                                  call.first.escaped)]
    /\ UNCHANGED <<store, nextToken, inflight, served, shown, proc>>

NextRender == RenderFirst \/ RenderSecond

SpecRender == InitRender /\ [][NextRender]_vars

\* ----------------------------------------------------------- handlers
\* The route handlers called on their own, as routes() hands them to the
\* chains: every handler registered on a chain, the last registration's
\* included, on a request of its method and pattern, on a new session and
\* on the session of a logged-in user, with the cache built from the
\* repository's files or from a directory without page files.
SnippetIds == {"1", "2", "3", "0", "x"}

PathsOf(pattern) ==
    IF InPattern(pattern, ":id")
    THEN {<<"snippet", "view", id>> : id \in SnippetIds}
    ELSE {pattern}

LoggedIn ==
    [newSessionData EXCEPT !.token = 1, !.values = [k \in {authenticatedUserID} |-> 1],
                           !.grant = 1]

HandlerCalls ==
    {c \in [h : {routes[i].handler : i \in {j \in DOMAIN routes : routes[j].chain # NoChain}},
            rq : [method : {"GET", "POST"}, path : UNION {PathsOf(routes[i].pattern) : i \in DOMAIN routes},
                  csrfCookie : {"none"}, csrfSent : {"none"},
                  form : {"parseError", "invalid", "valid"},
                  db : {"ok", "domain", "error"}, uid : {1}, render : {"ok", "execError"},
                  renew : {"ok", "error"}, panicAt : {"none"}],
            sd : {newSessionData, LoggedIn}] :
        /\ \E i \in DOMAIN routes :
              /\ routes[i].handler = c.h /\ routes[i].method = c.rq.method
              /\ c.rq.path \in PathsOf(routes[i].pattern)
        /\ c.h \in {"home", "snippetView", "snippetCreatePost"} => c.rq.db # "domain"
        /\ c.h \in DecodingHandlers \/ c.rq.form = "valid"}

\* What a handler leaves: the response, the session, its store calls, its
\* session operations, the error log, the envelopes it made, the sets
\* executed.
Result(st) ==
    [w |-> st.w, sd |-> st.sd, db |-> st.db, ops |-> st.ops, errorLog |-> st.errorLog,
     data |-> st.data, escaped |-> st.escaped]

InitHandlers ==
    /\ store = [t \in {1} |-> [values |-> LoggedIn.values, grant |-> 1, expired |-> FALSE]]
    /\ nextToken = 2
    /\ inflight = None
    /\ served = None
    /\ shown = [t \in {} |-> ""]
    /\ proc \in {[Serving EXCEPT !.env = env, !.cache = newTemplateCache(env).cache] :
                    env \in {RepoFiles, [RepoFiles EXCEPT !.present = {}]}}
    /\ call \in {[h |-> c.h, rq |-> c.rq, sd |-> c.sd, pc |-> "ready",
                  out |-> Result(start(c.sd))] : c \in HandlerCalls}

CallHandler ==
    /\ call.pc = "ready"
    /\ call' = [call EXCEPT !.pc = "done",
                            !.out = Result(handle(start(call.sd), call.rq, call.h))]
    /\ UNCHANGED <<store, nextToken, inflight, served, shown, proc>>

NextHandlers == CallHandler

SpecHandlers == InitHandlers /\ [][NextHandlers]_vars

\* ---------------------------------------------------------- humanDate
\* humanDate called on a time: the zero time, the zero instant seen from
\* UTC+1, and every minute of 17 Mar 2022 on the wall clock of UTC-1, UTC
\* and UTC+1.
Offsets == {-60, 0, 60}

Times ==
    {ZeroTime, Time(1, 60, 60)} \cup
    {Time(3, minute, offset) : minute \in 0..(MinutesPerDay - 1), offset \in Offsets}

InitHumanDate ==
    /\ store = [t \in {} |-> [values |-> NoValues, grant |-> 0, expired |-> FALSE]]
    /\ nextToken = 1
    /\ inflight = None
    /\ served = None
    /\ shown = [t \in {} |-> ""]
    /\ proc = Serving
    /\ call \in {[tm |-> tm, pc |-> "ready", out |-> ""] : tm \in Times}

CallHumanDate ==
    /\ call.pc = "ready"
    /\ call' = [call EXCEPT !.pc = "done", !.out = humanDate(call.tm)]
    /\ UNCHANGED <<store, nextToken, inflight, served, shown, proc>>

NextHumanDate == CallHumanDate

SpecHumanDate == InitHumanDate /\ [][NextHumanDate]_vars

\* --------------------------------------------------------- concurrency
\* Two requests in flight. net/http serves each request on its own
\* goroutine; the requests share the session store and nothing else. A
\* request touches the store when LoadAndSave loads its session (Load),
\* when RenewToken deletes the old token and when LoadAndSave commits. The
\* renewal deletes the token the request loaded and the commit after it
\* writes a token no other request holds, so the two together act as one
\* step; a request without renewal touches the store at its commit only.
\* call is the history of the interleaving:
\*   out   the tokens whose logout has been answered;
\*   last  the slot that loaded its session in the latest step, 0 after a
\*         request was served;
\*   pair  both slots hold the same stored flash: the later one loaded the
\*         token of the earlier with nothing served in between;
\*   given the slots whose loaded flash newTemplateData has returned to the
\*         request of the other slot;
\*   slot  the slot of the request just served.
Other(r) == 3 - r

InitConcurrent ==
    /\ store = [t \in {} |-> [values |-> NoValues, grant |-> 0, expired |-> FALSE]]
    /\ nextToken = 1
    /\ inflight = [r \in Req |-> None]
    /\ served = None
    /\ shown = [t \in {} |-> ""]
    /\ proc = Serving
    /\ call = [out |-> {}, last |-> 0, pair |-> FALSE, given |-> {}, slot |-> 0]

\* The session a slot loads is the one the other slot holds, flash included.
SameFlash(o, sd) ==
    /\ call.last = o /\ inflight[o] # None
    /\ sd.token # NoToken /\ inflight[o].sd.token = sd.token
    /\ flashKey \in DOMAIN sd.values /\ flashKey \in DOMAIN inflight[o].sd.values

\* The requests that meet in the interleavings: a page that shows the
\* flash, the login, the logout, a handler that puts a flash, a page behind
\* the gate.
ConcurrentRequests ==
    {rq : rq \in {x \in SucceedingRequests :
                    RouteOf(x).handler \in {"home", "userLoginPost", "userLogoutPost",
                                            "snippetCreatePost", "accountView"}}}

LoadConcurrent(r) ==
    /\ served = None
    /\ inflight[r] = None
    /\ \E cookie \in {NoToken} \cup (1..(nextToken - 1)) :
          /\ inflight' = [inflight EXCEPT ![r] = [cookie |-> cookie, sd |-> Find(cookie),
                                                  stale |-> Stale(cookie)]]
          /\ call' = [call EXCEPT !.last = r, !.pair = SameFlash(Other(r), Find(cookie)),
                                  !.given = @ \ {r}]
    /\ UNCHANGED <<store, nextToken, served, shown, proc>>

ServeConcurrent(r) ==
    /\ served = None
    /\ inflight[r] # None
    /\ \E rq \in ConcurrentRequests :
          LET st == app(rq, start(inflight[r].sd))
          IN /\ st.nextToken <= MaxToken + 1
             /\ store' = st.store
             /\ nextToken' = st.nextToken
             /\ served' = record(rq, inflight[r].cookie, inflight[r].sd, inflight[r].stale, st)
             /\ shown' = Shown(inflight[r].cookie, st)
    /\ inflight' = [inflight EXCEPT ![r] = None]
    /\ call' = [call EXCEPT !.slot = r, !.last = 0]
    /\ UNCHANGED proc

\* The response has gone to the client: a logout that completed has been
\* answered; a flash the request was given is one the other slot holds too.
RespondConcurrent ==
    /\ served # None
    /\ served' = None
    /\ call' = [out |-> call.out \cup
                          (IF /\ RouteOf(served.rq).handler = "userLogoutPost"
                              /\ \E i \in DOMAIN served.ops : served.ops[i] = "RenewToken"
                              /\ served.loaded.token # NoToken
                           THEN {served.loaded.token} ELSE {}),
                last |-> 0,
                pair |-> FALSE,
                given |-> (call.given \ {call.slot}) \cup
                            (IF call.pair /\ (\E i \in DOMAIN served.data : served.data[i].Flash # "")
                             THEN {Other(call.slot)} ELSE {}),
                slot |-> 0]
    /\ UNCHANGED <<store, nextToken, inflight, shown, proc>>

NextConcurrent ==
    \/ LoadConcurrent(1)
    \/ LoadConcurrent(2)
    \/ ServeConcurrent(1)
    \/ ServeConcurrent(2)
    \/ RespondConcurrent

SpecConcurrent == InitConcurrent /\ [][NextConcurrent]_vars

\* ------------------------------------------------------- after logout
\* The session routes, one request at a time, with the history of the
\* session cookies that logout responses have issued (call.issued).
InitLogout ==
    /\ store = [t \in {} |-> [values |-> NoValues, grant |-> 0, expired |-> FALSE]]
    /\ nextToken = 1
    /\ inflight = [r \in Req |-> None]
    /\ served = None
    /\ shown = [t \in {} |-> ""]
    /\ proc = Serving
    /\ call = [issued |-> {}]

\* The response is the logout's redirect with a session cookie.
IssuedByLogout(rq, st) ==
    IF /\ RouteOf(rq).handler = "userLogoutPost"
       /\ \E i \in DOMAIN st.ops : st.ops[i] = "RenewToken"
       /\ st.w.code = StatusSeeOther /\ st.w.setCookie # NoToken
    THEN {st.w.setCookie} ELSE {}

ServeLogout(r) ==
    /\ served = None
    /\ inflight[r] # None
    /\ \E rq \in SessionRequests :
          LET st == app(rq, start(inflight[r].sd))
          IN /\ st.nextToken <= MaxToken + 1
             /\ store' = st.store
             /\ nextToken' = st.nextToken
             /\ served' = record(rq, inflight[r].cookie, inflight[r].sd, inflight[r].stale, st)
             /\ shown' = Shown(inflight[r].cookie, st)
             /\ call' = [issued |-> call.issued \cup IssuedByLogout(rq, st)]
    /\ inflight' = [inflight EXCEPT ![r] = None]
    /\ UNCHANGED proc

NextLogout ==
    \/ Load(1)
    \/ ServeLogout(1)
    \/ Respond

SpecLogout == InitLogout /\ [][NextLogout]_vars

\* ------------------------------------------------------------- decode
\* The session routes with every outcome of decodePostForm: next to the
\* requests on which every call succeeds, the form posts whose form does
\* not parse or decode, whose decoder target is invalid, or whose fields
\* fail a check.
DecodeRequests ==
    SucceedingRequests \cup
        {[rq EXCEPT !.form = f] :
            rq \in {x \in SucceedingRequests : RouteOf(x).handler \in DecodingHandlers},
            f \in {"parseError", "invalidTarget", "invalid"}}

ServeDecode(r) == ServeFrom(r, DecodeRequests)

NextDecode ==
    \/ Load(1)
    \/ ServeDecode(1)
    \/ Respond

SpecDecode == Init /\ [][NextDecode]_vars

\* ============================================================ properties
\* What the properties say of the request just served.
InSeq(seq, x) == \E i \in DOMAIN seq : seq[i] = x

Handler == RouteOf(served.rq).handler

\* The routes by the chain routes() registers them on.
DynamicHandlers ==
    {"home", "snippetView", "about", "userSignup", "userSignupPost", "userLogin",
     "userLoginPost"}
ProtectedHandlers ==
    {"accountView", "snippetCreate", "snippetCreatePost", "userLogoutPost",
     "accountPasswordUpdate"}

OnProtected == served # None /\ served.rq.panicAt # "router" /\ Handler \in ProtectedHandlers
OnDynamic == served # None /\ served.rq.panicAt # "router" /\ Handler \in DynamicHandlers

\* The session the request arrived with holds a user id.
ArrivedAuthenticated == authenticatedUserID \in DOMAIN served.loaded.values

\* The CSRF guard lets the request through: a safe method, or the token
\* sent is the token of the CSRF cookie.
CsrfOk ==
    \/ served.rq.method = "GET"
    \/ served.rq.csrfCookie # "none" /\ served.rq.csrfSent = served.rq.csrfCookie

Invoked == InSeq(served.trace, "+" \o Handler)

\* The request left no effect: no session operation, no persistence call,
\* the session and the store as they were.
NoEffect ==
    /\ served.ops = <<>> /\ served.db = <<>>
    /\ served.sd = served.loaded
    /\ store = served.storeBefore

RedirectedTo(url) ==
    /\ served.w.code = StatusSeeOther
    /\ "Location" \in DOMAIN served.w.wire
    /\ served.w.wire["Location"] = <<url>>

\* ---- C1
\* C1 as stated: every request to a protected route whose session has no
\* authenticatedUserID is answered by the 303 redirect to /user/login, and
\* its handler is never invoked.
C1_AsStated ==
    OnProtected /\ ~ArrivedAuthenticated =>
        RedirectedTo("/user/login") /\ ~Invoked /\ NoEffect

\* C1, amended: a request to a protected route whose session has no
\* authenticatedUserID never invokes the handler and has no effect; it is
\* answered by requireAuthentication's 303 redirect to /user/login when it
\* passes the CSRF guard (which comes first in the chain), and by the
\* guard's 400 otherwise, without reaching requireAuthentication.
C1_GateRedirects ==
    OnProtected /\ ~ArrivedAuthenticated =>
        /\ ~Invoked /\ NoEffect
        /\ IF CsrfOk
           THEN RedirectedTo("/user/login") /\ InSeq(served.trace, "+requireAuthentication")
           ELSE /\ served.w.code = StatusBadRequest
                /\ ~InSeq(served.trace, "+requireAuthentication")

C1_Witness ==
    /\ OnProtected /\ ~ArrivedAuthenticated
    /\ served.rq.method = "POST" /\ CsrfOk /\ served.rq.form = "valid"
    /\ Handler = "snippetCreatePost"
    /\ RedirectedTo("/user/login")
    /\ InSeq(served.trace, "-requireAuthentication")
    /\ ~InSeq(served.trace, "+snippetCreatePost")

\* ---- C2
\* The history of a stored session that holds a user id: the login that
\* put it began when the token generator stood at grant, and the session is
\* stored under a token issued since.
BoundAfterGrant(t) ==
    authenticatedUserID \in DOMAIN store[t].values =>
        store[t].grant # 0 /\ t >= store[t].grant

Precedes(ops, first, then) ==
    \A i \in DOMAIN ops : ops[i] = then => \E j \in 1..(i - 1) : ops[j] = first

\* C2: in every request RenewToken has succeeded before authenticatedUserID
\* is put into or removed from the session, and after a failed RenewToken
\* neither happens; no token issued before a login is bound in the store to
\* a session holding the user id that login granted.
C2_RenewBeforeAuthChange ==
    /\ \A t \in DOMAIN store : BoundAfterGrant(t)
    /\ served # None =>
          /\ Precedes(served.ops, "RenewToken", "Put:" \o authenticatedUserID)
          /\ Precedes(served.ops, "RenewToken", "Remove:" \o authenticatedUserID)
          /\ InSeq(served.ops, "RenewToken:error") =>
                /\ ~InSeq(served.ops, "Put:" \o authenticatedUserID)
                /\ ~InSeq(served.ops, "Remove:" \o authenticatedUserID)
                /\ served.sd = served.loaded

\* A login on a session that existed before it (token 1, say from the flash
\* of a signup): the user id is stored under the token issued by the login.
C2_Witness ==
    /\ served # None /\ Handler = "userLoginPost"
    /\ served.cookie \in DOMAIN served.storeBefore
    /\ served.ops = <<"RenewToken", "Put:" \o authenticatedUserID,
                      "PopString:" \o redirectAfterLogin>>
    /\ served.sd.token = served.n0
    /\ served.sd.token \in DOMAIN store
    /\ store[served.sd.token].values[authenticatedUserID] = served.rq.uid
    /\ store[served.sd.token].grant = served.n0

\* ---- C3
LoginSucceeded ==
    served # None /\ served.rq.panicAt # "router" /\ Handler = "userLoginPost"
        /\ served.w.code = StatusSeeOther
LogoutCompleted ==
    served # None /\ served.rq.panicAt # "router" /\ Handler = "userLogoutPost"
        /\ Invoked /\ served.w.code = StatusSeeOther

\* C3: after a successful login and after a completed logout the token the
\* request arrived with is not in the store; the session is stored under
\* the token issued by the request and sent in the response cookie, and
\* under no other token.
C3_TokenRotated ==
    LoginSucceeded \/ LogoutCompleted =>
        /\ served.cookie \notin DOMAIN store
        /\ served.w.setCookie # NoToken
        /\ served.w.setCookie # served.cookie
        /\ served.w.setCookie >= served.n0
        /\ served.w.setCookie \in DOMAIN store
        /\ store[served.w.setCookie].values = served.sd.values
        /\ \A t \in DOMAIN store \ {served.w.setCookie} :
              t \in DOMAIN served.storeBefore /\ store[t] = served.storeBefore[t]

C3_Witness ==
    /\ LogoutCompleted
    /\ served.cookie \in DOMAIN served.storeBefore
    /\ served.cookie \notin DOMAIN store
    /\ served.w.setCookie \in DOMAIN store
    /\ authenticatedUserID \notin DOMAIN store[served.w.setCookie].values
    /\ flashKey \in DOMAIN store[served.w.setCookie].values

\* ---- C4
\* C4: a POST to a route on the dynamic or the protected chain whose CSRF
\* token is missing or is not the cookie's is rejected by the CSRF guard
\* (400, from nosurf's default failure handler): no wrapper past the guard
\* and no handler is entered and the request has no effect, whatever the
\* form data and the session.
C4_CsrfRejects ==
    (OnDynamic \/ OnProtected) /\ served.rq.method = "POST" /\ ~CsrfOk =>
        /\ served.w.code = StatusBadRequest
        /\ served.w.body = <<[text |-> ""]>>
        /\ ~Invoked /\ NoEffect
        /\ ~InSeq(served.trace, "+authenticate")
        /\ ~InSeq(served.trace, "+requireAuthentication")
        /\ InSeq(served.trace, "-noSurf")

C4_Witness ==
    /\ OnProtected /\ ArrivedAuthenticated
    /\ Handler = "snippetCreatePost" /\ served.rq.form = "valid"
    /\ served.rq.csrfCookie = "a" /\ served.rq.csrfSent = "b"
    /\ served.w.code = StatusBadRequest
    /\ ~Invoked

\* ---- C5
FlashOf(values) == IF flashKey \in DOMAIN values THEN values[flashKey] ELSE ""

\* C5 as stated: once a newTemplateData call has returned the flash stored
\* under a token, no later call returns it again unless it was put again.
C5_AsStated == served # None => ~served.reread

\* C5, amended, for the requests of a session served one after another: the
\* first newTemplateData call of a request returns the flash the session
\* arrived with and removes it from the request's session, every further
\* call returns the empty string, and when the request returns normally the
\* session is stored without the flash; only a request that panicked after
\* its read (its session is not saved) leaves a flash in the store that a
\* later call returns again.
C5_FlashReadOnce ==
    /\ \A t \in DOMAIN shown : shown[t] = "panic"
    /\ served # None /\ served.data # <<>> =>
          /\ \A i \in DOMAIN served.data :
                served.data[i].Flash = IF i = 1 THEN FlashOf(served.loaded.values) ELSE ""
          /\ flashKey \notin DOMAIN served.sd.values
          /\ served.recovered = NoPanic /\ served.sd.token \in DOMAIN store =>
                flashKey \notin DOMAIN store[served.sd.token].values
          /\ served.recovered = NoPanic /\ FlashOf(served.loaded.values) # "" =>
                /\ served.sd.token = served.cookie
                /\ served.cookie \in DOMAIN store
                /\ store[served.cookie].values =
                      [k \in DOMAIN served.loaded.values \ {flashKey} |-> served.loaded.values[k]]

\* The flash a logout put, read by a request that panicked, is read again by
\* the next request, which removes it from the store.
C5_Witness ==
    /\ served # None /\ served.reread /\ served.recovered = NoPanic
    /\ served.data[1].Flash = "You've been logged out successfully!"
    /\ served.cookie \in DOMAIN store
    /\ flashKey \notin DOMAIN store[served.cookie].values
    /\ shown = [t \in {} |-> ""]

\* ---- C6
\* A fault was raised inside recoverPanic while the request was served.
Panicked ==
    \/ served.rq.panicAt = "router"
    \/ served.rq.panicAt = "handler" /\ Invoked

\* C6: when a wrapper or handler inside recoverPanic panics, the response
\* is 500 with the header Connection: close and the generic body only (what
\* the handler had written is dropped), and the panic value is in the error
\* log.
C6_PanicIsGeneric500 ==
    served # None /\ Panicked =>
        /\ served.w.code = StatusInternalServerError
        /\ "Connection" \in DOMAIN served.w.wire
        /\ served.w.wire["Connection"] = <<"close">>
        /\ served.w.body = <<[text |-> "Internal Server Error"]>>
        /\ served.errorLog = <<"runtime error">>
        /\ served.recovered = "runtime error"

\* A handler that had rendered its page before the fault.
C6_Witness ==
    /\ served # None /\ served.rq.panicAt = "handler" /\ Handler = "home"
    /\ served.data # <<>>
    /\ served.w.code = StatusInternalServerError
    /\ served.w.body = <<[text |-> "Internal Server Error"]>>
    /\ served.trace[Len(served.trace)] = "-recoverPanic"

\* ---- C7
AllNames ==
    {"recoverPanic", "logRequest", "secureHeaders", "router", "LoadAndSave", "noSurf",
     "authenticate", "requireAuthentication", "methodNotAllowed", "routerNotFound"}
        \cup {routes[i].handler : i \in DOMAIN routes}

IsExit(e) == e \in {"-" \o n : n \in AllNames}
IsEnter(e) == ~IsExit(e) /\ e # "commit"

\* The order of the claim for the route of the request served.
FixedOrder ==
    <<"recoverPanic", "logRequest", "secureHeaders", "router">>
        \o (IF OnDynamic \/ OnProtected THEN <<"LoadAndSave", "noSurf", "authenticate">> ELSE <<>>)
        \o (IF OnProtected THEN <<"requireAuthentication">> ELSE <<>>)
        \o <<Handler>>

\* Nothing stops the request before its handler.
ReachesHandler ==
    /\ served.rq.panicAt # "router"
    /\ OnDynamic \/ OnProtected => CsrfOk
    /\ OnProtected => ArrivedAuthenticated

\* C7: the wrappers and the handler are entered in the fixed order, as far
\* as the request gets (to the handler when nothing stops it), and left in
\* the reverse order (after a panic only recoverPanic is left, by its
\* deferred function); the session is committed only after the handler has
\* returned, just before LoadAndSave returns, and the store gets no new
\* content without a commit.
C7_WrapperOrder ==
    served # None =>
        LET trace == served.trace
            ins == SelectSeq(trace, IsEnter)
            outs == SelectSeq(trace, IsExit)
            k == Len(ins)
        IN /\ k <= Len(FixedOrder)
           /\ \A i \in 1..k : trace[i] = "+" \o FixedOrder[i]
           /\ ReachesHandler => k = Len(FixedOrder)
           /\ IF Panicked
              THEN outs = <<"-recoverPanic">>
              ELSE outs = [i \in 1..k |-> "-" \o FixedOrder[k + 1 - i]]
           /\ \A i \in DOMAIN trace : trace[i] = "commit" =>
                 /\ InSeq(SubSeq(trace, 1, i - 1), "-" \o Handler)
                 /\ i < Len(trace) /\ trace[i + 1] = "-LoadAndSave"
           /\ (\E t \in DOMAIN store :
                  t \notin DOMAIN served.storeBefore \/ store[t] # served.storeBefore[t])
                 => InSeq(trace, "commit")

C7_Witness ==
    /\ served # None
    /\ served.trace =
          <<"+recoverPanic", "+logRequest", "+secureHeaders", "+router", "+LoadAndSave",
            "+noSurf", "+authenticate", "+requireAuthentication", "+snippetCreatePost",
            "-snippetCreatePost", "-requireAuthentication", "-authenticate", "-noSurf",
            "commit", "-LoadAndSave", "-router", "-secureHeaders", "-logRequest",
            "-recoverPanic">>

\* ---- C8
\* C8: the dynamic chain is the three wrappers it was built with, also
\* after the protected chain was made from it; every dynamic route is
\* registered on it, and no request to a dynamic route enters
\* requireAuthentication: it reaches its handler whenever it passes the CSRF
\* guard, authenticated or not.
C8_DynamicSkipsGate ==
    /\ dynamic = <<"LoadAndSave", "noSurf", "authenticate">>
    /\ protected = <<"LoadAndSave", "noSurf", "authenticate", "requireAuthentication">>
    /\ \A i \in DOMAIN routes :
          routes[i].handler \in DynamicHandlers =>
              routes[i].chain = <<"LoadAndSave", "noSurf", "authenticate">>
    /\ OnDynamic =>
          /\ ~InSeq(served.trace, "+requireAuthentication")
          /\ "Cache-Control" \notin DOMAIN served.w.wire
          /\ CsrfOk => Invoked

C8_Witness ==
    /\ OnDynamic /\ ~ArrivedAuthenticated /\ Handler = "snippetView"
    /\ Invoked /\ served.w.code = StatusOK
    /\ ~InSeq(served.trace, "+requireAuthentication")

\* ---- C9
CountOf(seq, x) == Cardinality({i \in DOMAIN seq : seq[i] = x})

NoStore ==
    /\ "Cache-Control" \in DOMAIN served.w.wire
    /\ served.w.wire["Cache-Control"] = <<"no-store">>

\* C9 as stated: every request to a protected route whose session is
\* authenticated gets the header Cache-Control: no-store and has its
\* handler invoked exactly once.
C9_AsStated ==
    OnProtected /\ ArrivedAuthenticated =>
        NoStore /\ CountOf(served.trace, "+" \o Handler) = 1

\* C9, amended: a request to a protected route whose session is
\* authenticated and which passes the CSRF guard gets, from
\* requireAuthentication, the header Cache-Control: no-store, and its
\* handler is invoked exactly once; one the CSRF guard rejects never reaches
\* requireAuthentication: no such header, no handler.
C9_GatePasses ==
    OnProtected /\ ArrivedAuthenticated =>
        IF CsrfOk
        THEN /\ NoStore
             /\ CountOf(served.trace, "+requireAuthentication") = 1
             /\ CountOf(served.trace, "+" \o Handler) = 1
        ELSE /\ served.w.code = StatusBadRequest
             /\ "Cache-Control" \notin DOMAIN served.w.wire
             /\ ~InSeq(served.trace, "+requireAuthentication")
             /\ ~Invoked

C9_Witness ==
    /\ OnProtected /\ ArrivedAuthenticated /\ Handler = "accountView"
    /\ served.w.code = StatusOK /\ NoStore
    /\ CountOf(served.trace, "+accountView") = 1
    /\ served.db = <<"users.Get">>

\* ---- C10
\* A non-empty authenticated-user value under authenticatedUserID.
HoldsUser(values) ==
    authenticatedUserID \in DOMAIN values /\ values[authenticatedUserID] # 0

\* C10: isAuthenticated is true exactly when the request's session holds a
\* non-empty user id under authenticatedUserID: the gate lets a request
\* through, and the envelope says IsAuthenticated, exactly then; the ids
\* the store holds are ids users.Authenticate returned, never 0.
C10_IsAuthenticatedIffUser ==
    /\ \A t \in DOMAIN store :
          authenticatedUserID \in DOMAIN store[t].values =>
              store[t].values[authenticatedUserID] \in Users
    /\ served # None =>
          /\ \A i \in DOMAIN served.data :
                served.data[i].IsAuthenticated = HoldsUser(served.loaded.values)
          /\ InSeq(served.trace, "+requireAuthentication") =>
                (Invoked <=> HoldsUser(served.loaded.values))

C10_Witness ==
    /\ served # None /\ Handler = "home" /\ served.data # <<>>
    /\ served.data[1].IsAuthenticated
    /\ served.loaded.values[authenticatedUserID] = MaxUser

\* ---- C11
\* The request served again from the state it was served in, with no
\* session cookie.
WithoutCookie ==
    app(served.rq, [start(newSessionData) EXCEPT !.store = served.storeBefore,
                                                 !.nextToken = served.n0,
                                                 !.n0 = served.n0])

\* C11: a request whose cookie names an expired session is served as the
\* same request without cookie is: its session is a new empty one, no
\* envelope says IsAuthenticated or carries a flash, a protected route
\* redirects to the login, and the response, the session and the store
\* after it are those of the request without cookie.
C11_ExpiredIsNoSession ==
    served # None /\ served.stale =>
        /\ served.loaded = newSessionData
        /\ \A i \in DOMAIN served.data :
              ~served.data[i].IsAuthenticated /\ served.data[i].Flash = ""
        /\ OnProtected => RedirectedTo("/user/login") /\ ~Invoked
        /\ served.w = WithoutCookie.w
        /\ served.sd = WithoutCookie.sd
        /\ served.trace = WithoutCookie.trace
        /\ served.data = WithoutCookie.data
        /\ store = WithoutCookie.store

\* The expired session held a user id and a flash.
C11_Witness ==
    /\ served # None /\ served.stale
    /\ authenticatedUserID \in DOMAIN served.storeBefore[served.cookie].values
    /\ Handler = "accountView"
    /\ RedirectedTo("/user/login")

\* ---- C12
\* A parse that newTemplateCache attempts fails: there is a page to build,
\* and the base layout, the partials or a page present does not parse.
SomeParseFails(env) ==
    env.present # {} /\ (~env.base \/ ~env.partials \/ env.bad # {})

\* C12: newTemplateCache returns an error exactly when a parse fails, and
\* then a nil map without entries; otherwise the made map with the template
\* set of every page present. main goes past the build only with the map of
\* a build without error, and after a failed build the process holds no
\* cache and binds no socket.
C12_AllOrNothing ==
    LET out == newTemplateCache(proc.env)
    IN /\ (out.err # NoErr) <=> SomeParseFails(proc.env)
       /\ out.err # NoErr => out.cache = NilMap
       /\ out.err = NoErr =>
             /\ ~out.cache.nil
             /\ out.cache.entries = [name \in proc.env.present |-> TemplateSet(name)]
       /\ proc.pc \in {"routes", "serving", "panic"} =>
             ~SomeParseFails(proc.env) /\ proc.cache = out.cache
       /\ SomeParseFails(proc.env) => proc.cache = NilMap /\ ~proc.bound

\* The last page does not parse, after seven that did.
C12_Witness ==
    /\ proc.pc = "exit"
    /\ proc.env = [RepoFiles EXCEPT !.bad = {"view.gohtml"}]
    /\ proc.cache = NilMap
    /\ proc.errorLog = <<"ParseFiles view.gohtml">>

\* ---- C20
\* C20: main builds the cache only with the store opened and pinged, and
\* makes the server (and binds its socket) only with the cache built as
\* well, both without error; when the store or the build fails, the process
\* logs the error and exits, and in no state of that run is a socket bound.
C20_StartupOrder ==
    LET failed == proc.env.dsn # "ok" \/ SomeParseFails(proc.env)
    IN /\ proc.pc \in {"newTemplateCache", "routes", "serving", "panic"} =>
             proc.env.dsn = "ok" /\ proc.db = "open"
       /\ proc.pc \in {"routes", "serving", "panic"} \/ proc.bound =>
             /\ ~failed
             /\ ~proc.cache.nil /\ DOMAIN proc.cache.entries = proc.env.present
       /\ failed =>
             /\ ~proc.bound
             /\ proc.pc \in {"openDB", "newTemplateCache", "exit"}
             /\ proc.pc = "newTemplateCache" => proc.env.dsn = "ok"
       /\ proc.pc = "exit" =>
             /\ failed /\ ~proc.bound /\ Len(proc.errorLog) = 1
             /\ proc.env.dsn = "openError" => proc.errorLog = <<"sql.Open">>
             /\ proc.env.dsn = "pingError" => proc.errorLog = <<"db.Ping">>
             /\ proc.env.dsn = "ok" => proc.db = "open"

\* The store does not answer the ping.
C20_Witness ==
    /\ proc.pc = "exit" /\ proc.env.dsn = "pingError"
    /\ proc.errorLog = <<"db.Ping">>
    /\ proc.cache = NilMap /\ ~proc.bound

\* ---- C13
GenericServerError(w) ==
    /\ w.code = StatusInternalServerError
    /\ w.body = <<[text |-> "Internal Server Error"]>>

\* C13: a render call whose page is not in the cache or whose execution
\* fails leaves the generic 500 and nothing else on the response: not the
\* status asked for, no part of the page. A call that writes any of the page
\* writes the status asked for first and the whole page, and does so only
\* when the page is in the cache and the execution did not fail.
C13_NoTruncatedResponse ==
    call.pc # "ready" =>
        LET in == call.in
            w == call.first.w
            fails == in.page \notin DOMAIN in.cache.entries \/ in.render = "execError"
        IN /\ fails => /\ GenericServerError(w)
                       /\ Len(call.first.errorLog) = 1
           /\ ~fails => /\ w.code = in.status
                        /\ w.body = <<[page |-> in.page, data |-> in.data]>>
                        /\ call.first.errorLog = <<>>
           /\ \A i \in DOMAIN w.body : "page" \in DOMAIN w.body[i] => ~fails

\* The execution of a page in the cache fails after writing part of it.
C13_Witness ==
    /\ call.pc = "once"
    /\ call.in.page = "view.gohtml" /\ call.in.page \in DOMAIN call.in.cache.entries
    /\ call.in.render = "execError" /\ call.in.status = StatusOK
    /\ GenericServerError(call.first.w)

\* ---- C14
\* C14: two render calls with the same page and data on the same
\* application write the same status and the same body, and each leaves
\* the cache map it found (escaping a set on its first execution changes
\* neither the map nor what the set writes).
C14_RenderIdempotent ==
    /\ call.pc # "ready" => call.first.cache = call.in.cache
    /\ call.pc = "twice" =>
          /\ call.second.w.code = call.first.w.code
          /\ call.second.w.body = call.first.w.body
          /\ call.second.w = call.first.w
          /\ call.second.cache = call.in.cache

\* A page rendered twice, the second time from the set already escaped.
C14_Witness ==
    /\ call.pc = "twice"
    /\ call.in.page = "home.gohtml" /\ call.in.cache = templateCache
    /\ call.in.render = "ok"
    /\ call.first.escaped = {"home.gohtml"}
    /\ call.second.w.code = call.in.status
    /\ call.second.w.body = <<[page |-> "home.gohtml", data |-> call.in.data]>>

\* ---- C15
\* The request served went through the chain without an injected panic.
ServedOn(method, path) ==
    /\ served # None /\ served.rq.panicAt = "none"
    /\ served.rq.method = method /\ served.rq.path = path

\* A login with valid credentials: the form decodes and passes its checks,
\* Authenticate returns the user's id, the guard and RenewToken pass.
ValidLogin ==
    /\ ServedOn("POST", <<"user", "login">>) /\ CsrfOk
    /\ served.rq.form = "valid" /\ served.rq.db = "ok" /\ served.rq.renew = "ok"

\* The request carries the cookie a login response issued: its token is
\* stored with the user id that login put under it.
CarriesLoginCookie ==
    /\ served.cookie \in DOMAIN served.storeBefore
    /\ ~served.stale
    /\ served.storeBefore[served.cookie].grant = served.cookie
    /\ HoldsUser(served.storeBefore[served.cookie].values)

\* C15: a login with valid credentials answers 303 to /snippet/create, a
\* route registered on the protected chain, and issues a cookie whose
\* session is stored with the user id; a GET /account/view carrying that
\* cookie runs accountView, which (its user lookup and render succeeding)
\* answers 200 with the account page; a GET /account/view without cookie is
\* answered 303 to /user/login and does not run accountView.
C15_LoginThenAccount ==
    /\ ValidLogin =>
          /\ RedirectedTo("/snippet/create")
          /\ Lookup("GET", <<"snippet", "create">>).chain = protected
          /\ served.w.setCookie # NoToken
          /\ served.w.setCookie \in DOMAIN store
          /\ store[served.w.setCookie].grant = served.w.setCookie
          /\ store[served.w.setCookie].values[authenticatedUserID] = served.rq.uid
    /\ ServedOn("GET", <<"account", "view">>) /\ CarriesLoginCookie =>
          /\ InSeq(served.trace, "+accountView")
          /\ served.rq.db = "ok" /\ served.rq.render = "ok" =>
                /\ served.w.code = StatusOK
                /\ Len(served.w.body) = 1
                /\ served.w.body[1].page = "account.gohtml"
    /\ ServedOn("GET", <<"account", "view">>) /\ served.cookie = NoToken =>
          /\ RedirectedTo("/user/login")
          /\ ~InSeq(served.trace, "+accountView")

\* The account page served to the cookie of an earlier login.
C15_Witness ==
    /\ ServedOn("GET", <<"account", "view">>) /\ CarriesLoginCookie
    /\ served.w.code = StatusOK
    /\ served.w.body[1].page = "account.gohtml"
    /\ served.w.body[1].data.IsAuthenticated

\* ---- C16
OnSnippetView == served # None /\ served.rq.panicAt # "router" /\ Handler = "snippetView"

\* The id segment of the request served.
IdSegment == served.rq.path[Len(served.rq.path)]

\* No snippet with the id, or one that has expired.
NoLiveRow(id) == id \notin DOMAIN SnippetRows \/ SnippetRows[id].expired

\* The store's Get was called and returned an error other than ErrNoRecord.
StoreFailed == IdOk(served.rq) /\ served.rq.db = "error"

NotFound404 ==
    /\ served.w.code = StatusNotFound
    /\ served.w.body = <<[text |-> "Not Found"]>>

\* C16 as stated: 404 for an id that is no positive integer, names no
\* snippet or names an expired one, and 500 only when the store returns an
\* error other than ErrNoRecord.
C16_AsStated ==
    OnSnippetView /\ served.rq.panicAt = "none" =>
        /\ ~IdOk(served.rq) => NotFound404
        /\ IdOk(served.rq) /\ ~StoreFailed /\ NoLiveRow(Atoi(IdSegment)) => NotFound404
        /\ served.w.code = StatusInternalServerError => StoreFailed

\* C16, amended: 404 without asking the store for an id that is no positive
\* integer; 404 when the store finds no snippet with the id and its expiry
\* ahead; 500 when the store returns another error; and 500 otherwise only
\* when the snippet was found and rendering its page failed or the handler
\* panicked.
C16_NotFoundNot500 ==
    OnSnippetView =>
        /\ ~IdOk(served.rq) => NotFound404 /\ served.db = <<>>
        /\ IdOk(served.rq) => served.db = <<"snippets.Get">>
        /\ IdOk(served.rq) /\ ~StoreFailed /\ NoLiveRow(Atoi(IdSegment)) =>
              NotFound404 /\ served.errorLog = <<>>
        /\ StoreFailed => GenericServerError(served.w)
        /\ served.w.code = StatusInternalServerError =>
              \/ StoreFailed
              \/ /\ IdOk(served.rq) /\ ~NoLiveRow(Atoi(IdSegment))
                 /\ served.rq.render = "execError" \/ served.rq.panicAt = "handler"

\* The snippet asked for has expired.
C16_Witness ==
    /\ OnSnippetView /\ IdSegment = "2" /\ SnippetRows[2].expired
    /\ served.rq.db = "ok"
    /\ NotFound404 /\ served.db = <<"snippets.Get">>

\* ---- C17
\* What the properties say of the handler just called.
Called(h) == call.pc = "done" /\ call.h = h

FormPage ==
    CASE call.h = "snippetCreatePost" -> "create.gohtml"
      [] call.h = "userSignupPost" -> "signup.gohtml"
      [] call.h = "userLoginPost" -> "login.gohtml"
      [] OTHER -> "password.gohtml"

\* The handler's render call succeeds: the cache has the pages and the
\* execution does not fail.
RenderSucceeds == call.rq.render = "ok" /\ DOMAIN proc.cache.entries = PageNames

\* The envelope the handler rendered.
Envelope == call.out.data[Len(call.out.data)]

Messages(form) == Cardinality(DOMAIN form.FieldErrors) + Len(form.NonFieldErrors)

\* The response is the form's page under 422, made from the envelope.
FormReRendered ==
    /\ call.out.w.code = StatusUnprocessableEntity
    /\ call.out.w.body = <<[page |-> FormPage, data |-> Envelope]>>

\* The store call of the handler returned its domain error.
DomainError ==
    /\ call.pc = "done"
    /\ call.h \in {"userSignupPost", "userLoginPost", "accountPasswordUpdatePost"}
    /\ call.rq.form = "valid" /\ call.rq.db = "domain"

\* The store finds no record: no live snippet, or no user.
NoRecord ==
    \/ /\ Called("snippetView") /\ IdOk(call.rq) /\ call.rq.db = "ok"
       /\ NoLiveRow(Atoi(call.rq.path[Len(call.rq.path)]))
    \/ Called("accountView") /\ call.rq.db = "domain"

\* C17 as stated: a domain error is answered by the 422 re-render of the
\* form with one added message, ErrNoRecord by a user-facing response, and
\* neither by a 500.
C17_AsStated ==
    /\ DomainError => FormReRendered /\ Messages(Envelope.Form) = 1
    /\ NoRecord => call.out.w.code # StatusInternalServerError

\* C17, amended: on a domain error the handler logs nothing itself and
\* calls render with 422, the form's page and the form with exactly one
\* added message; the response is that re-render, or render's generic 500
\* when the render itself fails. ErrNoRecord is answered 404 by snippetView
\* and by the redirect to /user/login by accountView, never by a 500.
C17_DomainErrorsReRender ==
    /\ DomainError =>
          /\ Len(call.out.db) = 1 /\ Len(call.out.data) = 1
          /\ Messages(Envelope.Form) = 1
          /\ IF RenderSucceeds THEN FormReRendered /\ call.out.errorLog = <<>>
             ELSE /\ GenericServerError(call.out.w)
                  /\ call.out.errorLog \in {<<"ExecuteTemplate">>, <<"the template does not exist">>}
    /\ NoRecord =>
          /\ call.out.errorLog = <<>>
          /\ call.h = "snippetView" =>
                /\ call.out.w.code = StatusNotFound
                /\ call.out.w.body = <<[text |-> "Not Found"]>>
          /\ call.h = "accountView" =>
                /\ call.out.w.code = StatusSeeOther
                /\ call.out.w.wire["Location"] = <<"/user/login">>

\* The login with credentials that Authenticate refuses.
C17_Witness ==
    /\ DomainError /\ call.h = "userLoginPost" /\ RenderSucceeds
    /\ FormReRendered
    /\ Envelope.Form.NonFieldErrors = <<"Email or password is incorrect">>
    /\ DOMAIN Envelope.Form.FieldErrors = {}

\* ---- C18
\* A field check of the handler fails.
CheckFails ==
    /\ call.pc = "done" /\ call.h \in DecodingHandlers
    /\ call.rq.form = "invalid"

\* C18 as stated: when a field check fails the response is the 422
\* re-render of the form with the field errors, and the handler's store
\* operation is not called.
C18_AsStated ==
    CheckFails =>
        /\ FormReRendered /\ DOMAIN Envelope.Form.FieldErrors # {}
        /\ call.out.db = <<>>

\* C18, amended: when a field check fails the handler does not call its
\* store operation and calls render with 422, the form's page and the form
\* with its field errors; the response is that re-render, or render's
\* generic 500 when the render itself fails.
C18_InvalidFormNotPersisted ==
    CheckFails =>
        /\ call.out.db = <<>>
        /\ Len(call.out.data) = 1
        /\ DOMAIN Envelope.Form.FieldErrors # {} /\ Envelope.Form.NonFieldErrors = <<>>
        /\ IF RenderSucceeds THEN FormReRendered /\ call.out.errorLog = <<>>
           ELSE /\ GenericServerError(call.out.w)
                /\ Len(call.out.errorLog) = 1

\* The password form with a failing check, sent by a logged-in user.
C18_Witness ==
    /\ CheckFails /\ call.h = "accountPasswordUpdatePost" /\ call.sd = LoggedIn
    /\ RenderSucceeds /\ FormReRendered
    /\ DOMAIN Envelope.Form.FieldErrors = {"currentPassword"}
    /\ call.out.db = <<>> /\ call.out.ops = <<"PopString:flash">>

\* ---- C19
\* The handler's store operation was called and returned an error that is
\* not its domain error.
PersistenceFailed ==
    call.pc = "done" /\ call.out.db # <<>> /\ call.rq.db = "error"

\* The handler came to its render call (every handler makes its envelope
\* right before it), and the render fails.
RenderFailed ==
    call.pc = "done" /\ call.out.data # <<>> /\ ~RenderSucceeds

\* C19: a failure of the store that is not a domain error, and a failure of
\* the render, is written to the error log (one entry, naming the failure)
\* and answered 500 with the plain text Internal Server Error as the whole
\* body.
C19_FailuresAreGeneric500 ==
    PersistenceFailed \/ RenderFailed =>
        /\ GenericServerError(call.out.w)
        /\ call.out.w.wire["Content-Type"] = <<"text/plain; charset=utf-8">>
        /\ Len(call.out.errorLog) = 1
        /\ PersistenceFailed =>
              call.out.errorLog[1] \in {"Latest", "Get", "Insert", "Authenticate", "PasswordUpdate"}
        /\ ~PersistenceFailed =>
              call.out.errorLog[1] \in {"ExecuteTemplate", "the template does not exist"}

\* The home page's query fails.
C19_Witness ==
    /\ Called("home") /\ PersistenceFailed
    /\ GenericServerError(call.out.w)
    /\ call.out.errorLog = <<"Latest">>

\* ---- C21
\* C21: a request makes at most one envelope, whatever path its handler
\* takes, and the envelope is made from the session of that request: its
\* Flash is the flash the request's session arrived with, its
\* IsAuthenticated is whether that session holds a user.
C21_OneEnvelope ==
    served # None =>
        /\ Len(served.data) <= 1
        /\ \A i \in DOMAIN served.data :
              /\ served.data[i].Flash = FlashOf(served.loaded.values)
              /\ served.data[i].IsAuthenticated = HoldsUser(served.loaded.values)
        /\ Len(served.w.body) = 1 /\ "data" \in DOMAIN served.w.body[1] =>
              served.w.body[1].data = served.data[1]

\* The signup that finds the email taken: the checks pass, Insert returns
\* the domain error, and the one envelope carries the form.
C21_Witness ==
    /\ served # None /\ served.rq.panicAt = "none" /\ Handler = "userSignupPost"
    /\ served.rq.form = "valid" /\ served.rq.db = "domain"
    /\ Len(served.data) = 1
    /\ DOMAIN served.data[1].Form.FieldErrors = {"email"}
    /\ served.w.code = StatusUnprocessableEntity

\* ---- C24
\* C24: humanDate returns the empty string for the zero time.
C24_ZeroTimeIsEmpty ==
    call.pc = "done" /\ IsZero(call.tm) => call.out = ""

\* ---- C25
\* C25: for a time that is not the zero time, humanDate returns the format
\* 'DD Mon YYYY at HH:MM' of the instant on the wall clock of UTC.
C25_FormatsInUTC ==
    call.pc = "done" /\ ~IsZero(call.tm) => call.out = Format(UTC(call.tm))

\* ---- C23
PasswordUpdatePath == <<"account", "password", "update">>

\* C23: once main has called routes(), the construction has completed
\* without a fault and the router serves GET and POST on
\* /account/password/update, the POST by accountPasswordUpdatePost behind
\* the protected chain.
C23_PasswordUpdateRouted ==
    proc.pc \in {"panic", "serving"} =>
        /\ proc.pc = "serving"
        /\ Lookup("GET", PasswordUpdatePath).handler = "accountPasswordUpdate"
        /\ Lookup("POST", PasswordUpdatePath).handler = "accountPasswordUpdatePost"
        /\ Lookup("POST", PasswordUpdatePath).chain = protected

\* ---- C28
OnLoginPost ==
    served # None /\ served.rq.panicAt # "router" /\ Handler = "userLoginPost" /\ Invoked

\* The login did not get a user id from users.Authenticate: the form did
\* not decode, a field check failed, or Authenticate returned an error
\* (ErrInvalidCredentials is the domain error).
LoginFailed == OnLoginPost /\ (served.rq.form # "valid" \/ served.rq.db # "ok")

UserOf(values) ==
    IF authenticatedUserID \in DOMAIN values THEN values[authenticatedUserID] ELSE 0

GrantOps == {"RenewToken", "RenewToken:error", "Put:" \o authenticatedUserID}

\* C28: a login that fails leaves the session's token and the presence and
\* value of authenticatedUserID as the request found them, in the session
\* and in the store, and sends no other session cookie; userLoginPost calls
\* RenewToken and Put(authenticatedUserID) only after users.Authenticate
\* returned without error.
C28_FailedLoginKeepsSession ==
    /\ LoginFailed =>
          /\ served.sd.token = served.loaded.token
          /\ UserOf(served.sd.values) = UserOf(served.loaded.values)
          /\ served.w.setCookie \in {NoToken, served.loaded.token}
          /\ DOMAIN store = DOMAIN served.storeBefore
          /\ \A t \in DOMAIN store :
                UserOf(store[t].values) = UserOf(served.storeBefore[t].values)
    /\ OnLoginPost =>
          \A i \in DOMAIN served.ops :
              served.ops[i] \in GrantOps =>
                  /\ served.rq.form = "valid" /\ served.rq.db = "ok"
                  /\ served.db = <<"users.Authenticate">>

\* A login with a wrong password on a session that holds a user id and a
\* flash: the form is rendered again, the flash is consumed and the session
\* saved under the same token with the same user id.
C28_Witness ==
    /\ LoginFailed
    /\ served.rq.form = "valid" /\ served.rq.db = "domain"
    /\ served.w.code = StatusUnprocessableEntity
    /\ UserOf(served.loaded.values) # 0
    /\ flashKey \in DOMAIN served.loaded.values
    /\ served.w.setCookie = served.loaded.token
    /\ UserOf(store[served.loaded.token].values) = UserOf(served.loaded.values)
    /\ flashKey \notin DOMAIN store[served.loaded.token].values

\* ---- C29
OnLogoutPost ==
    served # None /\ served.rq.panicAt # "router" /\ Handler = "userLogoutPost" /\ Invoked

\* The handler called RenewToken and RenewToken returned an error.
RenewFailed ==
    /\ OnLoginPost \/ OnLogoutPost
    /\ served.rq.renew = "error"
    /\ Handler = "userLoginPost" => served.rq.form = "valid" /\ served.rq.db = "ok"

\* C29: when RenewToken returns an error, userLoginPost answers 500 without
\* putting authenticatedUserID, and userLogoutPost answers 500 without
\* removing authenticatedUserID and without putting the logout flash: the
\* only session operation is the failed renewal, the session and the store
\* are as the request found them.
C29_RenewErrorIs500 ==
    RenewFailed =>
        /\ served.ops = <<"RenewToken:error">>
        /\ GenericServerError(served.w)
        /\ served.errorLog = <<"RenewToken">>
        /\ served.sd.values = served.loaded.values
        /\ served.sd.token = served.loaded.token
        /\ served.w.setCookie = NoToken
        /\ store = served.storeBefore

\* A logout whose renewal fails, on a session that holds a user id: the
\* user id is still in the store under the request's token.
C29_Witness ==
    /\ RenewFailed /\ Handler = "userLogoutPost"
    /\ served.w.code = StatusInternalServerError
    /\ served.cookie \in DOMAIN store
    /\ UserOf(store[served.cookie].values) # 0
    /\ flashKey \notin DOMAIN store[served.cookie].values

\* ---- C30
\* The user id the store holds under a token before and after the request.
UserBefore(t) ==
    IF t \in DOMAIN served.storeBefore THEN UserOf(served.storeBefore[t].values) ELSE 0
UserAfter(t) == IF t \in DOMAIN store THEN UserOf(store[t].values) ELSE 0

\* The request is a login for which users.Authenticate returned an id.
LoginGranted ==
    OnLoginPost /\ served.rq.form = "valid" /\ served.rq.db = "ok" /\ served.rq.renew = "ok"

\* C30: every user id in the store is an id users.Authenticate returned;
\* a request leaves a user id in the store where there was not that id only
\* when it is a login, and then the id is the one Authenticate returned to
\* that request and the token the one the request's session got from the
\* renewal; a user id leaves the store only at the token of a login's or a
\* logout's own session; Put(authenticatedUserID) is called by
\* userLoginPost only, Remove(authenticatedUserID) by userLogoutPost only.
C30_UserIdFromAuthenticate ==
    /\ \A t \in DOMAIN store : UserOf(store[t].values) \in Users \cup {0}
    /\ \A t \in DOMAIN store :
          authenticatedUserID \in DOMAIN store[t].values => store[t].values[authenticatedUserID] # 0
    /\ served # None =>
          /\ \A t \in Token :
                UserAfter(t) # UserBefore(t) =>
                    \/ /\ UserAfter(t) # 0
                       /\ LoginGranted
                       /\ UserAfter(t) = served.rq.uid
                       /\ t = served.sd.token /\ t = served.w.setCookie
                       /\ t >= served.n0
                    \/ /\ UserAfter(t) = 0
                       /\ LoginGranted \/ OnLogoutPost
                       /\ t = served.loaded.token
          /\ InSeq(served.ops, "Put:" \o authenticatedUserID) => LoginGranted
          /\ InSeq(served.ops, "Remove:" \o authenticatedUserID) => OnLogoutPost

\* A login as user 2 on a session that held user 1: the old token is gone,
\* the new token holds 2.
C30_Witness ==
    /\ LoginGranted /\ served.rq.uid = 2
    /\ UserBefore(served.loaded.token) = 1
    /\ UserAfter(served.loaded.token) = 0
    /\ UserAfter(served.w.setCookie) = 2

\* ---- C26
\* C26: once a logout has been answered, the token it arrived with never
\* again names a stored session that holds authenticatedUserID, whatever
\* the requests still in flight do; so no request presenting that token
\* afterwards loads an authenticated session.
C26_LoggedOutTokenStaysOut ==
    \A t \in call.out :
        t \in DOMAIN store /\ ~store[t].expired =>
            authenticatedUserID \notin DOMAIN store[t].values

\* ---- C27
\* C27: of two requests in flight with the same session token, at most
\* one is given a flash that was put once: the request just served was not
\* given a flash that newTemplateData had already returned to the other.
C27_FlashReturnedOnce ==
    served # None /\ (\E i \in DOMAIN served.data : served.data[i].Flash # "") =>
        call.slot \notin call.given

\* ---- C22
\* The tokens of the request just served: the one its session was loaded
\* under and the one it was saved under.
OwnTokens == {served.loaded.token, served.sd.token} \ {NoToken}

Restrict(f, S) == [t \in DOMAIN f \cap S |-> f[t]]

\* The request served on a store that holds its own session only.
Alone ==
    app(served.rq, [start(served.loaded) EXCEPT
                        !.store = Restrict(served.storeBefore, {served.loaded.token}),
                        !.nextToken = served.n0,
                        !.n0 = served.n0])

\* C22: requests with different session tokens do not interfere. The
\* session a request holds is the one stored under the token it presented,
\* or a new one; serving it leaves every other token's stored session as
\* it was; and its response, its session and what it stores under its own
\* tokens are what they are when the store holds no other token's session.
C22_TokensDoNotInterfere ==
    /\ \A r \in Req :
          inflight[r] # None => inflight[r].sd.token \in {NoToken, inflight[r].cookie}
    /\ served # None =>
          /\ served.loaded.token \in {NoToken, served.cookie}
          /\ \A t \in Token \ OwnTokens :
                /\ t \in DOMAIN store <=> t \in DOMAIN served.storeBefore
                /\ t \in DOMAIN store => store[t] = served.storeBefore[t]
          /\ served.w = Alone.w
          /\ served.sd = Alone.sd
          /\ served.data = Alone.data
          /\ \A t \in OwnTokens :
                /\ t \in DOMAIN store <=> t \in DOMAIN Alone.store
                /\ t \in DOMAIN store => store[t] = Alone.store[t]

\* A login served while the other slot holds another token's session,
\* which is authenticated: that session is in the store as before.
C22_Witness ==
    /\ served # None /\ RouteOf(served.rq).handler = "userLoginPost"
    /\ InSeq(served.ops, "RenewToken")
    /\ served.sd.token \in DOMAIN store
    /\ \E r \in Req :
          /\ inflight[r] # None
          /\ inflight[r].sd.token \notin OwnTokens \cup {NoToken}
          /\ inflight[r].sd.token \in DOMAIN store
          /\ UserOf(store[inflight[r].sd.token].values) # 0
          /\ store[inflight[r].sd.token].values = inflight[r].sd.values

\* ---- C31
LogoutFlash == "You've been logged out successfully!"

\* A request to a protected route that carries a cookie a logout issued.
AfterLogout == OnProtected /\ served.cookie \in call.issued

\* What C31 says of the logout itself: the saved session has no user id
\* and holds the logout flash, the response is 303 to /; the handler runs
\* only for a session that arrived with a user id and a valid CSRF token.
LogoutSaved ==
    /\ LogoutCompleted =>
          /\ served.w.setCookie \in DOMAIN store
          /\ authenticatedUserID \notin DOMAIN store[served.w.setCookie].values
          /\ FlashOf(store[served.w.setCookie].values) = LogoutFlash
          /\ RedirectedTo("/")
    /\ OnLogoutPost => ArrivedAuthenticated /\ CsrfOk

\* C31 as stated: ... and every later request to a protected route with
\* the cookie the logout issued is redirected to /user/login.
C31_AsStated ==
    /\ LogoutSaved
    /\ AfterLogout => RedirectedTo("/user/login")

\* C31, amended: ... and every later request to a protected route with the
\* cookie the logout issued never reaches the handler: it is redirected to
\* /user/login when it passes the CSRF guard, and answered 400 by the guard
\* otherwise.
C31_LoggedOutIsGated ==
    /\ LogoutSaved
    /\ AfterLogout =>
          /\ ~ArrivedAuthenticated /\ ~Invoked
          /\ IF CsrfOk THEN RedirectedTo("/user/login")
             ELSE served.w.code = StatusBadRequest

C31_Witness ==
    /\ AfterLogout /\ Handler = "accountView"
    /\ served.cookie \in DOMAIN served.storeBefore
    /\ RedirectedTo("/user/login")

\* ---- C32
OnDecoding ==
    served # None /\ served.rq.panicAt # "router" /\ Handler \in DecodingHandlers /\ Invoked

\* C32: when decodePostForm returns an error (the form does not parse or
\* decode) the handler answers 400 and does nothing else: no envelope with
\* field errors, no persistence call, no session operation, the session
\* and the store as they were. When the decoder's target is invalid the
\* handler panics: recoverPanic answers the generic 500 with Connection:
\* close and logs the error, and nothing is saved.
C32_DecodeFailure ==
    /\ OnDecoding /\ served.rq.form = "parseError" =>
          /\ served.w.code = StatusBadRequest
          /\ served.w.body = <<[text |-> "Bad Request"]>>
          /\ served.data = <<>>
          /\ NoEffect
          /\ served.recovered = NoPanic
    /\ OnDecoding /\ served.rq.form = "invalidTarget" =>
          /\ served.recovered = "InvalidDecoderError"
          /\ GenericServerError(served.w)
          /\ "Connection" \in DOMAIN served.w.wire
          /\ served.w.wire["Connection"] = <<"close">>
          /\ served.errorLog = <<"InvalidDecoderError">>
          /\ served.data = <<>> /\ served.db = <<>>
          /\ store = served.storeBefore

\* An invalid decoder target in snippetCreatePost, on an authenticated
\* session.
C32_Witness ==
    /\ OnDecoding /\ served.rq.form = "invalidTarget" /\ Handler = "snippetCreatePost"
    /\ ArrivedAuthenticated
    /\ served.w.code = StatusInternalServerError
    /\ ~InSeq(served.trace, "commit")

\* ---- C33
\* The request's newTemplateData call returned a flash and the render that
\* followed answered 500.
FlashThenRenderError ==
    /\ served # None /\ served.rq.panicAt = "none"
    /\ served.data # <<>> /\ served.data[1].Flash # ""
    /\ served.rq.render = "execError"
    /\ served.w.code = StatusInternalServerError

\* C33: when render answers 500, the flash newTemplateData removed from the
\* request's session is still in the session stored for the request.
C33_FlashSurvivesRenderError ==
    FlashThenRenderError =>
        /\ served.sd.token \in DOMAIN store
        /\ FlashOf(store[served.sd.token].values) = served.data[1].Flash

\* ---- C34
\* C34: no session, stored, held by a request in flight or left by the
\* request just served, contains redirectAfterLogin, and no request puts
\* it; every login that succeeds answers 303 with Location /snippet/create.
C34_NoRedirectAfterLogin ==
    /\ \A t \in DOMAIN store : redirectAfterLogin \notin DOMAIN store[t].values
    /\ \A r \in Req :
          inflight[r] # None => redirectAfterLogin \notin DOMAIN inflight[r].sd.values
    /\ served # None =>
          /\ redirectAfterLogin \notin DOMAIN served.sd.values
          /\ ~InSeq(served.ops, "Put:" \o redirectAfterLogin)
    /\ LoginSucceeded => RedirectedTo("/snippet/create")

\* A login that succeeds: it popped redirectAfterLogin, found nothing and
\* redirected to /snippet/create.
C34_Witness ==
    /\ LoginSucceeded
    /\ InSeq(served.ops, "PopString:" \o redirectAfterLogin)
    /\ RedirectedTo("/snippet/create")
    /\ served.w.setCookie \in DOMAIN store
    /\ UserOf(store[served.w.setCookie].values) = served.rq.uid

\* ---- C35
SecurityHeaders ==
    [x \in {"Content-Security-Policy", "Referrer-Policy", "X-Content-Type-Options",
            "X-Frame-Options", "X-XSS-Protection"} |->
        CASE x = "Content-Security-Policy" ->
               "default-src 'self'; style-src 'self' fonts.googleapis.com; font-src fonts.gstatic.com"
          [] x = "Referrer-Policy" -> "origin-when-cross-origin"
          [] x = "X-Content-Type-Options" -> "nosniff"
          [] x = "X-Frame-Options" -> "deny"
          [] x = "X-XSS-Protection" -> "0"]

\* C35: every response, whatever the route and however the request ends
\* (page, redirect, 400 of the CSRF guard, 404, 405, static file, the 500
\* after a panic in the router or in a handler), has a status line and was
\* sent with the five headers of secureHeaders, each with its one value.
C35_SecurityHeadersOnEveryResponse ==
    served # None =>
        /\ served.w.code # 0
        /\ \A x \in DOMAIN SecurityHeaders :
              /\ x \in DOMAIN served.w.wire
              /\ served.w.wire[x] = <<SecurityHeaders[x]>>

\* The 500 after a panic in the router.
C35_Witness ==
    /\ served # None /\ served.rq.panicAt = "router"
    /\ served.w.code = StatusInternalServerError
    /\ "Connection" \in DOMAIN served.w.wire
    /\ "X-Frame-Options" \in DOMAIN served.w.wire
    /\ served.w.wire["X-Frame-Options"] = <<"deny">>

\* ---------------------------------------------------- one answer per request
\* The handlers of handlers.go, as routes() registers them.
AppHandlers == {routes[i].handler : i \in DOMAIN routes} \ {"fileServer"}

\* The ways a handler can run exactly one of render, http.Redirect,
\* clientError, notFound and serverError: notFound is clientError(404), and
\* render ends in serverError when the page is missing or fails to execute.
OneAnswer ==
    { <<"render">>, <<"render", "serverError">>, <<"Redirect">>, <<"clientError">>,
      <<"notFound", "clientError">>, <<"serverError">> }

Returned == served # None /\ Handler \in AppHandlers /\ Invoked /\ served.recovered = NoPanic

\* C36 as stated: every handler that runs and returns has executed exactly
\* one of render, http.Redirect, clientError, notFound or serverError, and
\* the response has a status line.
C36_AsStated ==
    Returned => served.answers \in OneAnswer /\ served.w.code # 0

\* C36, amended: a request that reaches a handler of handlers.go, when the
\* handler returns, has one response: a status line and at most one body.
\* Every handler but ping has executed exactly one of render, http.Redirect,
\* clientError, notFound or serverError; ping has executed none of them and
\* answered with a direct Write of "OK", whose implicit status is 200.
C36_OneResponse ==
    Returned =>
        /\ served.w.code # 0
        /\ Len(served.w.body) <= 1
        /\ IF Handler = "ping"
           THEN /\ served.answers = <<>>
                /\ served.w.code = StatusOK
                /\ served.w.body = <<[text |-> "OK"]>>
           ELSE served.answers \in OneAnswer

\* A page whose template fails to execute: render has answered through its
\* own serverError, once.
C36_Witness ==
    /\ Returned
    /\ served.answers = <<"render", "serverError">>
    /\ served.w.code = StatusInternalServerError
    /\ Len(served.w.body) = 1

\* ---------------------------------------------------- static files and ping
OnStaticOrPing ==
    /\ served # None
    /\ served.rq.method = "GET"
    /\ Handler \in {"fileServer", "ping"}

\* C37: a GET of /static/*filepath or of /ping passes through recoverPanic,
\* logRequest and secureHeaders and through no other wrapper: the session
\* manager, the CSRF guard, authenticate and requireAuthentication are never
\* entered, no session is loaded, written or committed, no session cookie
\* is set, and the store is what it was before the request.
C37_StaticAndPingOnlyStandard ==
    OnStaticOrPing =>
        /\ \A i \in DOMAIN standard : served.trace[i] = "+" \o standard[i]
        /\ \A x \in {"LoadAndSave", "noSurf", "authenticate", "requireAuthentication"} :
              ~InSeq(served.trace, "+" \o x)
        /\ ~InSeq(served.trace, "commit")
        /\ served.ops = <<>>
        /\ served.sd = newSessionData
        /\ served.w.setCookie = NoToken
        /\ store = served.storeBefore
        /\ nextToken = served.n0

\* GET /ping answered while the store holds a session.
C37_Witness ==
    /\ OnStaticOrPing /\ Invoked
    /\ Handler = "ping"
    /\ served.w.code = StatusOK
    /\ served.storeBefore # <<>>
    /\ store = served.storeBefore

====
